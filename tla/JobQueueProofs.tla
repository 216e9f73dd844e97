--------------------------- MODULE JobQueueProofs ---------------------------
(***************************************************************************)
(* Proofs about JobQueue, for any number of jobs, workers and clients.     *)
(* The type invariant comes first, then what submit guarantees about the   *)
(* identifier it enqueues, then what holds however late any thread is,     *)
(* and last what holds while no attempt outlasts its lease.                *)
(***************************************************************************)
EXTENDS JobQueue, FiniteSetTheorems, TLAPS

\* What may befall a thread, and every step that is a thread's.
Fault(w) == Crash(w) \/ StoreRaises(w) \/ SettleRaises(w)
WorkerStep(w) == Worker(w) \/ Fault(w)

-----------------------------------------------------------------------------
(* Typing.                                                                 *)

\* The steps of a worker keep every variable in its range.
LEMMA WorkerTyped ==
  ASSUME TypeOK, NEW w \in Workers, WorkerStep(w)
  PROVE  TypeOK'
<1>. USE JobAssumption, NameAssumption
     DEF TypeOK, jobVars, workerVars, clientVars, ToIdle, Goto,
         JobStatus, RunStatus, Terminal, WorkerPc, history
<1>1. CASE Start(w)
  BY <1>1 DEF Start, RecoverOrphans
<1>2. ASSUME NEW j \in Jobs, Claim(w, j) PROVE TypeOK'
  BY <1>2 DEF Claim
<1>3. CASE Fetch(w)
  BY <1>3 DEF Fetch
<1>4. CASE HonourCancel(w)
  BY <1>4 DEF HonourCancel
<1>5. CASE MarkRunning(w)
  BY <1>5 DEF MarkRunning
<1>6. CASE BeginTask(w)
  BY <1>6 DEF BeginTask
<1>7. CASE RunAgent(w)
  BY <1>7 DEF RunAgent
<1>8. CASE AgentRaises(w)
  BY <1>8 DEF AgentRaises
<1>9. CASE Settle(w)
  BY <1>9 DEF Settle, FinishJob
<1>10. CASE Retry(w)
  BY <1>10 DEF Retry, RequeueJob
<1>11. CASE DeadLetter(w)
  BY <1>11 DEF DeadLetter, FinishJob
<1>12. CASE NoteRetry(w)
  BY <1>12 DEF NoteRetry
<1>13. CASE NoteDead(w)
  BY <1>13 DEF NoteDead
<1>14. CASE Crash(w)
  BY <1>14 DEF Crash
<1>15. CASE StoreRaises(w)
  BY <1>15 DEF StoreRaises
<1>16. CASE SettleRaises(w)
  BY <1>16 DEF SettleRaises, FinishJob
<1>. QED
  BY <1>1, <1>2, <1>3, <1>4, <1>5, <1>6, <1>7, <1>8, <1>9, <1>10, <1>11,
     <1>12, <1>13, <1>14, <1>15, <1>16 DEF WorkerStep, Fault, Worker, RunJob

\* So do the steps of a request thread.
LEMMA ClientTyped ==
  ASSUME TypeOK, NEW c \in Clients,
         \/ Request(c) \/ ClientCrash(c)
         \/ \E k \in Keys \cup {NoKey} : Lookup(c, k)
         \/ \E j \in Jobs : Cancel(c, j)
  PROVE  TypeOK'
<1>. USE JobAssumption, NameAssumption
     DEF TypeOK, jobVars, workerVars, clientVars, ClientDone,
         JobStatus, RunStatus, Terminal, ClientPc, history
<1>1. ASSUME NEW j \in Jobs, SaveRun(c, j) PROVE TypeOK'
  BY <1>1 DEF SaveRun
<1>2. CASE Enqueue(c)
  BY <1>2 DEF Enqueue
<1>3. CASE RereadRun(c)
  BY <1>3 DEF RereadRun
<1>4. CASE CancelRun(c)
  BY <1>4 DEF CancelRun
<1>5. CASE ClientCrash(c)
  BY <1>5 DEF ClientCrash
<1>6. ASSUME NEW k \in Keys \cup {NoKey}, Lookup(c, k) PROVE TypeOK'
  BY <1>6 DEF Lookup
<1>7. ASSUME NEW j \in Jobs, Cancel(c, j) PROVE TypeOK'
  BY <1>7 DEF Cancel, CancelJob
<1>. QED
  BY <1>1, <1>2, <1>3, <1>4, <1>5, <1>6, <1>7 DEF Request

LEMMA SurroundingsTyped ==
  ASSUME TypeOK, Undeploy \/ Tick
  PROVE  TypeOK'
<1>. USE JobAssumption, NameAssumption
     DEF TypeOK, jobVars, workerVars, clientVars, history
<1>1. CASE Undeploy
  BY <1>1 DEF Undeploy
<1>2. CASE Tick
  BY <1>2 DEF Tick, Countdown
<1>. QED
  BY <1>1, <1>2

\* Every variable stays in its range: a worker past its claim has a job at
\* hand, a request past save_run has one, leases and waits stay bounded.
THEOREM TypeCorrect == Spec => []TypeOK
<1>1. Init => TypeOK
  BY JobAssumption, NameAssumption
     DEF Init, TypeOK, JobStatus, RunStatus, WorkerPc, ClientPc
<1>2. TypeOK /\ [Next]_vars => TypeOK'
  <2>1. TypeOK /\ Next => TypeOK'
    BY WorkerTyped, ClientTyped, SurroundingsTyped DEF Next, WorkerStep, Fault
  <2>2. TypeOK /\ UNCHANGED vars => TypeOK'
    BY DEF TypeOK, vars, jobVars, workerVars, clientVars, history
  <2>. QED
    BY <2>1, <2>2
<1>. QED
  BY <1>1, <1>2, PTL DEF Spec

-----------------------------------------------------------------------------
(* A new job: its identifier is nobody else's and its run record exists.   *)

EnqueuesNewJob ==
  \A c \in Clients : cpc[c] = "enqueue" =>
    /\ status[cjob[c]] = "absent"
    /\ run[cjob[c]] # "absent"
    /\ \A d \in Clients : cpc[d] = "enqueue" /\ cjob[d] = cjob[c] => d = c

HolderHasJob == \A w \in Workers : Holding(w) => status[claim[w]] # "absent"

Fresh == JobHasRun /\ EnqueuesNewJob /\ HolderHasJob

LEMMA FreshWorker ==
  ASSUME TypeOK, Fresh, NEW w \in Workers, WorkerStep(w)
  PROVE  Fresh'
<1>. USE JobAssumption, NameAssumption
     DEF TypeOK, Fresh, JobHasRun, EnqueuesNewJob, HolderHasJob, Holding,
         jobVars, workerVars, clientVars, ToIdle, Goto, RunStatus
<1>1. CASE Start(w)
  BY <1>1 DEF Start, RecoverOrphans, Orphans
<1>2. ASSUME NEW j \in Jobs, Claim(w, j) PROVE Fresh'
  BY <1>2 DEF Claim, NextInLine, Runnable
<1>3. CASE Fetch(w)
  BY <1>3 DEF Fetch
<1>4. CASE HonourCancel(w)
  BY <1>4 DEF HonourCancel
<1>5. CASE MarkRunning(w)
  BY <1>5 DEF MarkRunning
<1>6. CASE BeginTask(w)
  BY <1>6 DEF BeginTask
<1>7. CASE RunAgent(w)
  BY <1>7 DEF RunAgent
<1>8. CASE AgentRaises(w)
  BY <1>8 DEF AgentRaises
<1>9. CASE Settle(w)
  BY <1>9 DEF Settle, FinishJob, StillRunning
<1>10. CASE Retry(w)
  BY <1>10 DEF Retry, RequeueJob, StillRunning
<1>11. CASE DeadLetter(w)
  BY <1>11 DEF DeadLetter, FinishJob, StillRunning
<1>12. CASE NoteRetry(w)
  BY <1>12 DEF NoteRetry
<1>13. CASE NoteDead(w)
  BY <1>13 DEF NoteDead
<1>14. CASE Crash(w)
  BY <1>14 DEF Crash
<1>15. CASE StoreRaises(w)
  BY <1>15 DEF StoreRaises
<1>16. CASE SettleRaises(w)
  BY <1>16 DEF SettleRaises, FinishJob, StillRunning
<1>. QED
  BY <1>1, <1>2, <1>3, <1>4, <1>5, <1>6, <1>7, <1>8, <1>9, <1>10, <1>11,
     <1>12, <1>13, <1>14, <1>15, <1>16 DEF WorkerStep, Fault, Worker, RunJob

LEMMA FreshClient ==
  ASSUME TypeOK, Fresh, NEW c \in Clients,
         \/ Request(c) \/ ClientCrash(c)
         \/ \E k \in Keys \cup {NoKey} : Lookup(c, k)
         \/ \E j \in Jobs : Cancel(c, j)
  PROVE  Fresh'
<1>. USE NameAssumption
     DEF TypeOK, Fresh, JobHasRun, EnqueuesNewJob, HolderHasJob, Holding,
         jobVars, workerVars, clientVars, ClientDone
<1>1. ASSUME NEW j \in Jobs, SaveRun(c, j) PROVE Fresh'
  BY <1>1 DEF SaveRun
<1>2. CASE Enqueue(c)
  BY <1>2 DEF Enqueue
<1>3. CASE RereadRun(c)
  BY <1>3 DEF RereadRun
<1>4. CASE CancelRun(c)
  BY <1>4 DEF CancelRun
<1>5. CASE ClientCrash(c)
  BY <1>5 DEF ClientCrash
<1>6. ASSUME NEW k \in Keys \cup {NoKey}, Lookup(c, k) PROVE Fresh'
  BY <1>6 DEF Lookup
<1>7. ASSUME NEW j \in Jobs, Cancel(c, j) PROVE Fresh'
  BY <1>7 DEF Cancel, CancelJob, Cancellable
<1>. QED
  BY <1>1, <1>2, <1>3, <1>4, <1>5, <1>6, <1>7 DEF Request

LEMMA FreshAlways == Spec => []Fresh
<1>1. Init => Fresh
  BY DEF Init, Fresh, JobHasRun, EnqueuesNewJob, HolderHasJob, Holding
<1>2. TypeOK /\ Fresh /\ [Next]_vars => Fresh'
  <2>. SUFFICES ASSUME TypeOK, Fresh, [Next]_vars PROVE Fresh'
    OBVIOUS
  <2>1. CASE Undeploy \/ Tick \/ UNCHANGED vars
    BY <2>1 DEF Undeploy, Tick, vars, jobVars, workerVars, clientVars, Fresh,
       JobHasRun, EnqueuesNewJob, HolderHasJob, Holding
  <2>. QED
    BY <2>1, FreshWorker, FreshClient DEF Next, WorkerStep, Fault
<1>. QED
  BY <1>1, <1>2, TypeCorrect, PTL DEF Spec

\* A job in the table always has a run record, a crash between the two
\* statements of submit included.
THEOREM EveryJobHasRun == Spec => []JobHasRun
<1>1. Fresh => JobHasRun
  BY DEF Fresh
<1>. QED
  BY <1>1, FreshAlways, PTL

\* The key a submission looked up is still free when it is enqueued.
KeyIsFree ==
  \A c \in Clients : cpc[c] \in {"save", "enqueue"} => ~Duplicate(ckey[c])

\* Submissions that never overlap are deduplicated, also when the process dies
\* between two statements of one and the user submits again. (Overlapping ones
\* are not: the lookup and the insert are two statements.)
THEOREM SequentialSubmitsDedupe ==
  (\A c, d \in Clients : c = d) => (Spec => []UniqueKey)
<1>. SUFFICES ASSUME \A c, d \in Clients : c = d PROVE Spec => []UniqueKey
  OBVIOUS
<1>1. Init => UniqueKey /\ KeyIsFree
  BY DEF Init, UniqueKey, KeyIsFree
<1>2. TypeOK /\ Fresh /\ UniqueKey /\ KeyIsFree /\ [Next]_vars
      => UniqueKey' /\ KeyIsFree'
  <2>. SUFFICES ASSUME TypeOK, Fresh, UniqueKey, KeyIsFree, [Next]_vars
                PROVE  UniqueKey' /\ KeyIsFree'
    OBVIOUS
  <2>. USE DEF TypeOK, UniqueKey, KeyIsFree, Duplicate, jobVars, clientVars
  <2>1. ASSUME UNCHANGED <<key, cpc, ckey>>,
               \A j \in Jobs : status'[j] = "absent" <=> status[j] = "absent"
        PROVE  UniqueKey' /\ KeyIsFree'
    BY <2>1
  <2>2. ASSUME NEW w \in Workers, WorkerStep(w)
        PROVE  \A j \in Jobs : status'[j] = "absent" <=> status[j] = "absent"
    BY <2>2 DEF WorkerStep, Fault, Worker, RunJob, Crash, StoreRaises, SettleRaises, Start, RecoverOrphans, Orphans, Claim,
       NextInLine, Runnable, Fetch, HonourCancel, MarkRunning, BeginTask,
       RunAgent, AgentRaises, Settle, Retry, DeadLetter, NoteRetry, NoteDead,
       FinishJob, RequeueJob, StillRunning
  <2>3. ASSUME NEW w \in Workers, WorkerStep(w)
        PROVE  UNCHANGED <<key, cpc, ckey>>
    BY <2>3 DEF WorkerStep, Fault, Worker, RunJob, Crash, StoreRaises, SettleRaises, Start, RecoverOrphans, Claim, Fetch,
       HonourCancel, MarkRunning, BeginTask, RunAgent, AgentRaises, Settle,
       Retry, DeadLetter, NoteRetry, NoteDead, FinishJob, RequeueJob
  <2>4. ASSUME NEW c \in Clients, Enqueue(c) PROVE UniqueKey' /\ KeyIsFree'
    BY <2>4 DEF Enqueue, ClientDone, Fresh, EnqueuesNewJob
  <2>5. ASSUME NEW c \in Clients, NEW j \in Jobs, Cancel(c, j)
        PROVE  UniqueKey' /\ KeyIsFree'
    BY <2>5 DEF Cancel, CancelJob, Cancellable
  <2>6. ASSUME NEW c \in Clients, RereadRun(c) \/ CancelRun(c) \/ ClientCrash(c)
        PROVE  UniqueKey' /\ KeyIsFree'
    BY <2>6 DEF RereadRun, CancelRun, ClientCrash, ClientDone
  <2>7. ASSUME NEW c \in Clients, NEW j \in Jobs, SaveRun(c, j)
        PROVE  UniqueKey' /\ KeyIsFree'
    BY <2>7 DEF SaveRun
  <2>8. ASSUME NEW c \in Clients, NEW k \in Keys \cup {NoKey}, Lookup(c, k)
        PROVE  UniqueKey' /\ KeyIsFree'
    BY <2>8 DEF Lookup
  <2>9. CASE Undeploy \/ Tick \/ UNCHANGED vars
    BY <2>9 DEF Undeploy, Tick, vars
  <2>. QED
    BY <2>1, <2>2, <2>3, <2>4, <2>5, <2>6, <2>7, <2>8, <2>9
       DEF Next, Request, WorkerStep, Fault
<1>. QED
  BY <1>1, <1>2, TypeCorrect, FreshAlways, PTL DEF Spec

-----------------------------------------------------------------------------
(* However late a thread is.                                               *)

FinalStep ==
  \A j \in Jobs : status[j] \in Terminal =>
    status'[j] = status[j] /\ attempts'[j] = attempts[j]

\* Only five statements change the status of a job, and each skips final ones;
\* Enqueue inserts an identifier that is not in the table yet.
THEOREM TerminalStaysFinal == Spec => TerminalIsFinal
<1>1. TypeOK /\ Fresh /\ [Next]_vars => [FinalStep]_vars
  <2>. SUFFICES ASSUME TypeOK, Fresh, [Next]_vars PROVE FinalStep
    OBVIOUS
  <2>. USE DEF TypeOK, FinalStep, Terminal, jobVars
  <2>1. ASSUME NEW w \in Workers, Worker(w) PROVE FinalStep
    <3>1. CASE Start(w)
      BY <3>1 DEF Start, RecoverOrphans, Orphans
    <3>2. ASSUME NEW j \in Jobs, Claim(w, j) PROVE FinalStep
      BY <3>2 DEF Claim, NextInLine, Runnable
    <3>3. CASE Settle(w)
      BY <3>3 DEF Settle, FinishJob, StillRunning
    <3>4. CASE Retry(w)
      BY <3>4 DEF Retry, RequeueJob, StillRunning
    <3>5. CASE DeadLetter(w)
      BY <3>5 DEF DeadLetter, FinishJob, StillRunning
    <3>6. CASE \/ Fetch(w) \/ HonourCancel(w) \/ MarkRunning(w) \/ BeginTask(w)
               \/ RunAgent(w) \/ AgentRaises(w) \/ NoteRetry(w) \/ NoteDead(w)
      BY <3>6 DEF Fetch, HonourCancel, MarkRunning, BeginTask, RunAgent,
         AgentRaises, NoteRetry, NoteDead
    <3>. QED
      BY <2>1, <3>1, <3>2, <3>3, <3>4, <3>5, <3>6 DEF Worker, RunJob
  <2>2. ASSUME NEW c \in Clients, Enqueue(c) PROVE FinalStep
    BY <2>2 DEF Enqueue, Fresh, EnqueuesNewJob
  <2>3. ASSUME NEW c \in Clients, NEW j \in Jobs, Cancel(c, j) PROVE FinalStep
    BY <2>3 DEF Cancel, CancelJob, Cancellable
  <2>4. ASSUME NEW c \in Clients,
               \/ RereadRun(c) \/ CancelRun(c) \/ ClientCrash(c)
               \/ \E j \in Jobs : SaveRun(c, j)
               \/ \E k \in Keys \cup {NoKey} : Lookup(c, k)
        PROVE  FinalStep
    BY <2>4 DEF RereadRun, CancelRun, ClientCrash, SaveRun, Lookup
  <2>5. ASSUME NEW w \in Workers, Fault(w) PROVE FinalStep
    BY <2>5 DEF Fault, Crash, StoreRaises, SettleRaises, FinishJob, StillRunning
  <2>6. CASE Undeploy \/ Tick \/ UNCHANGED vars
    BY <2>6 DEF Undeploy, Tick, vars
  <2>. QED
    BY <2>1, <2>2, <2>3, <2>4, <2>5, <2>6 DEF Next, Request, Fault
<1>. QED
  BY <1>1, TypeCorrect, FreshAlways, PTL DEF Spec, TerminalIsFinal, FinalStep

\* The row a worker read counts no more claims than the row in the table.
SnapshotIsPast ==
  \A w \in Workers : Holding(w) /\ pc[w] # "fetch" => tries[w] <= attempts[claim[w]]

Exhausted == DeadWhenExhausted /\ SnapshotIsPast

LEMMA ExhaustedWorker ==
  ASSUME TypeOK, Fresh, Exhausted, NEW w \in Workers, WorkerStep(w)
  PROVE  Exhausted'
<1>. USE JobAssumption, NameAssumption
     DEF TypeOK, Exhausted, DeadWhenExhausted, SnapshotIsPast, Holding,
         jobVars, workerVars, ToIdle, Goto
<1>1. CASE Start(w)
  BY <1>1 DEF Start, RecoverOrphans, Orphans
<1>2. ASSUME NEW j \in Jobs, Claim(w, j) PROVE Exhausted'
  BY <1>2 DEF Claim, NextInLine, Runnable
<1>3. CASE Fetch(w)
  BY <1>3 DEF Fetch
<1>4. CASE Settle(w)
  BY <1>4 DEF Settle, FinishJob, StillRunning
<1>5. CASE Retry(w)
  BY <1>5 DEF Retry, RequeueJob, StillRunning
<1>6. CASE DeadLetter(w)
  BY <1>6 DEF DeadLetter, FinishJob, StillRunning, AttemptsLeft
<1>7. CASE \/ HonourCancel(w) \/ MarkRunning(w) \/ BeginTask(w)
           \/ RunAgent(w) \/ AgentRaises(w) \/ NoteRetry(w) \/ NoteDead(w)
  BY <1>7 DEF HonourCancel, MarkRunning, BeginTask, RunAgent, AgentRaises,
     NoteRetry, NoteDead
<1>8. CASE Crash(w) \/ StoreRaises(w)
  BY <1>8 DEF Crash, StoreRaises
<1>9. CASE SettleRaises(w)
  BY <1>9 DEF SettleRaises, FinishJob, StillRunning
<1>. QED
  BY <1>1, <1>2, <1>3, <1>4, <1>5, <1>6, <1>7, <1>8, <1>9
     DEF WorkerStep, Fault, Worker, RunJob

\* A job is dead-lettered only once it was claimed MaxAttempts times, although
\* the worker decides on a row it read before the attempt.
THEOREM DeadAreExhausted == Spec => []DeadWhenExhausted
<1>1. Init => Exhausted
  BY DEF Init, Exhausted, DeadWhenExhausted, SnapshotIsPast, Holding
<1>2. TypeOK /\ Fresh /\ Exhausted /\ [Next]_vars => Exhausted'
  <2>. SUFFICES ASSUME TypeOK, Fresh, Exhausted, [Next]_vars PROVE Exhausted'
    OBVIOUS
  <2>. USE DEF TypeOK, Exhausted, DeadWhenExhausted, SnapshotIsPast, Holding,
       jobVars, workerVars
  <2>1. ASSUME NEW c \in Clients, Enqueue(c) PROVE Exhausted'
    BY <2>1 DEF Enqueue, Fresh, EnqueuesNewJob, HolderHasJob
  <2>2. ASSUME NEW c \in Clients, NEW j \in Jobs, Cancel(c, j) PROVE Exhausted'
    BY <2>2 DEF Cancel, CancelJob
  <2>3. ASSUME NEW c \in Clients,
               \/ RereadRun(c) \/ CancelRun(c) \/ ClientCrash(c)
               \/ \E j \in Jobs : SaveRun(c, j)
               \/ \E k \in Keys \cup {NoKey} : Lookup(c, k)
        PROVE  Exhausted'
    BY <2>3 DEF RereadRun, CancelRun, ClientCrash, SaveRun, Lookup
  <2>4. CASE Undeploy \/ Tick \/ UNCHANGED vars
    BY <2>4 DEF Undeploy, Tick, vars
  <2>. QED
    BY <2>1, <2>2, <2>3, <2>4, ExhaustedWorker
       DEF Next, Request, WorkerStep, Fault
<1>3. Exhausted => DeadWhenExhausted
  BY DEF Exhausted
<1>. QED
  BY <1>1, <1>2, <1>3, TypeCorrect, FreshAlways, PTL DEF Spec

\* Attempt t of j is still under way in w: w read it, or will read it.
Carries(w, j, t) ==
  /\ claim[w] = j
  /\ \/ pc[w] = "fetch" /\ worker[j] = w /\ t = attempts[j]
     \/ pc[w] # "fetch" /\ Holding(w) /\ t = tries[w]

\* The numbers below MaxAttempts that may still lead to a retry of j: those to come
\* and those under way.
Open(j) ==
  {t \in 1..(MaxAttempts - 1) :
     t > attempts[j] \/ \E w \in Workers : Carries(w, j, t)}

\* A claim of j is due.
Due(j) ==
  IF status[j] = "queued" \/ (status[j] = "running" /\ lease[j] = 0) THEN 1 ELSE 0

\* What may still be claimed is covered by MaxAttempts and the lapses.
Covered == \A j \in Jobs :
  attempts[j] + Cardinality(Open(j)) + Due(j) <= MaxAttempts + lapses[j]

\* No two workers carry one number of a job.
Numbered ==
  \A j \in Jobs : \A v, w \in Workers : \A t \in Nat :
    Carries(w, j, t) => t \in 1..attempts[j] /\ (Carries(v, j, t) => v = w)

Metered == Covered /\ Numbered

LEMMA SlotsAreFinite ==
  ASSUME NEW S, S \subseteq 1..(MaxAttempts - 1)
  PROVE  IsFiniteSet(S) /\ Cardinality(S) \in 0..(MaxAttempts - 1)
<1>1. /\ IsFiniteSet(1..(MaxAttempts - 1))
      /\ Cardinality(1..(MaxAttempts - 1)) = MaxAttempts - 1
  BY FS_Interval, JobAssumption
<1>2. IsFiniteSet(S) /\ Cardinality(S) <= MaxAttempts - 1
  BY <1>1, FS_Subset
<1>3. Cardinality(S) \in Nat
  BY <1>2, FS_CardinalityType
<1>. QED
  BY <1>2, <1>3, JobAssumption

LEMMA OpenIsFinite ==
  ASSUME TypeOK, NEW j \in Jobs
  PROVE  /\ IsFiniteSet(Open(j))
         /\ Cardinality(Open(j)) \in 0..(MaxAttempts - 1)
BY SlotsAreFinite DEF Open

\* What is carried after a step that claims nothing was carried before it.
CarriesLess ==
  \A j \in Jobs, w \in Workers, t \in Nat : Carries(w, j, t)' => Carries(w, j, t)

LEMMA NumberedKept ==
  ASSUME TypeOK, Numbered, CarriesLess, UNCHANGED attempts
  PROVE  Numbered'
BY DEF Numbered, CarriesLess

\* A step that neither claims nor enqueues keeps the account if every claim it makes
\* due is a lapse.
LEMMA CoveredKept ==
  ASSUME TypeOK, TypeOK', Covered, CarriesLess, UNCHANGED attempts, NEW j \in Jobs,
         Due(j)' <= Due(j) + (lapses'[j] - lapses[j])
  PROVE  attempts'[j] + Cardinality(Open(j))' + Due(j)' <= MaxAttempts + lapses'[j]
<1>1. Open(j)' \subseteq Open(j)
  BY DEF Open, CarriesLess
<1>2. Cardinality(Open(j)') <= Cardinality(Open(j))
  BY <1>1, OpenIsFinite, FS_Subset
<1>3. /\ Cardinality(Open(j)) \in Nat /\ Cardinality(Open(j)') \in Nat
      /\ attempts[j] \in Nat /\ lapses[j] \in Nat /\ lapses'[j] \in Nat
      /\ Due(j) \in Nat /\ Due(j)' \in Nat
  BY <1>1, OpenIsFinite, FS_Subset, FS_CardinalityType DEF TypeOK, Due
<1>4. attempts[j] + Cardinality(Open(j)) + Due(j) <= MaxAttempts + lapses[j]
  BY DEF Covered
<1>. QED
  BY <1>2, <1>3, <1>4, JobAssumption

LEMMA MeteredClaim ==
  ASSUME TypeOK, TypeOK', Metered, NEW w \in Workers, NEW j \in Jobs, Claim(w, j)
  PROVE  Metered'
<1>. USE DEF TypeOK, jobVars, workerVars, history
<1>1. /\ attempts' = [attempts EXCEPT ![j] = @ + 1]
      /\ worker' = [worker EXCEPT ![j] = w]
      /\ pc[w] = "idle"
      /\ pc' = [pc EXCEPT ![w] = "fetch"]
      /\ claim' = [claim EXCEPT ![w] = j]
      /\ UNCHANGED <<tries, lapses>>
  BY DEF Claim
<1>2. \A i \in Jobs, v \in Workers \ {w}, t \in Nat :
        Carries(v, i, t)' => Carries(v, i, t)
  BY <1>1 DEF Carries, Holding
<1>3. \A i \in Jobs, t \in Nat : Carries(w, i, t)' => i = j /\ t = attempts[j] + 1
  BY <1>1 DEF Carries
<1>4. Numbered'
  <2>. SUFFICES ASSUME NEW i \in Jobs, NEW u \in Workers, NEW v \in Workers,
                       NEW t \in Nat, Carries(v, i, t)'
                PROVE  t \in 1..attempts'[i] /\ (Carries(u, i, t)' => u = v)
    BY DEF Numbered
  <2>1. \A x \in Workers \ {w} : Carries(x, i, t)' => t \in 1..attempts[i]
    BY <1>2 DEF Metered, Numbered
  <2>2. attempts[i] \in Nat /\ attempts'[i] = IF i = j THEN attempts[i] + 1 ELSE attempts[i]
    BY <1>1
  <2>3. CASE v = w
    BY <1>3, <2>1, <2>2, <2>3
  <2>4. CASE v # w /\ u = w
    BY <1>3, <2>1, <2>2, <2>4
  <2>5. CASE v # w /\ u # w
    BY <1>2, <2>1, <2>2, <2>5 DEF Metered, Numbered
  <2>. QED
    BY <2>3, <2>4, <2>5
<1>5. ASSUME NEW i \in Jobs
      PROVE  attempts'[i] + Cardinality(Open(i)') + Due(i)' <= MaxAttempts + lapses'[i]
  <2>1. Open(i)' \subseteq Open(i)
    <3>. SUFFICES ASSUME NEW t \in 1..(MaxAttempts - 1),
                         t > attempts'[i] \/ \E v \in Workers : Carries(v, i, t)'
                  PROVE  t > attempts[i] \/ \E v \in Workers : Carries(v, i, t)
      BY DEF Open
    <3>1. attempts[i] \in Nat /\ (t > attempts'[i] => t > attempts[i])
      BY <1>1, JobAssumption
    <3>2. Carries(w, i, t)' => t > attempts[i]
      BY <1>3, <3>1, JobAssumption
    <3>3. \A v \in Workers \ {w} : Carries(v, i, t)' => Carries(v, i, t)
      BY <1>2, JobAssumption
    <3>. QED
      BY <3>1, <3>2, <3>3
  <2>2. Cardinality(Open(i)') <= Cardinality(Open(i))
    BY <2>1, OpenIsFinite, FS_Subset
  <2>3. /\ Cardinality(Open(i)) \in Nat /\ Cardinality(Open(i)') \in Nat
        /\ attempts[i] \in Nat /\ lapses[i] \in Nat /\ attempts'[i] \in Nat
    BY <2>1, OpenIsFinite, FS_Subset, FS_CardinalityType
  <2>4. attempts[i] + Cardinality(Open(i)) + Due(i) <= MaxAttempts + lapses[i]
    BY DEF Metered, Covered
  <2>5. attempts'[i] + Due(i)' <= attempts[i] + Due(i)
    BY JobAssumption DEF Claim, NextInLine, Runnable, Due
  <2>6. Due(i) \in Nat /\ Due(i)' \in Nat
    BY DEF Due
  <2>. QED
    BY <1>1, <2>2, <2>3, <2>4, <2>5, <2>6, JobAssumption
<1>. QED
  BY <1>4, <1>5 DEF Metered, Covered

\* A retry makes a claim due and closes the number it carried.
LEMMA MeteredRetry ==
  ASSUME TypeOK, TypeOK', Metered, NEW w \in Workers, Retry(w)
  PROVE  Metered'
<1>. DEFINE j == claim[w]
<1>. USE DEF TypeOK, jobVars, workerVars, history
<1>1. /\ j \in Jobs
      /\ pc[w] = "fail"
      /\ pc' = [pc EXCEPT ![w] = "note"]
      /\ UNCHANGED <<claim, tries, attempts, lapses>>
      /\ tries[w] < MaxAttempts
  BY DEF Retry, RequeueJob, Goto, AttemptsLeft
<1>2. CarriesLess
  BY <1>1, NameAssumption DEF CarriesLess, Carries, Holding, Retry, RequeueJob
<1>3. Carries(w, j, tries[w]) /\ tries[w] \in Nat
  BY <1>1 DEF Carries, Holding
<1>4. tries[w] \in 1..attempts[j] /\ tries[w] \in Open(j)
  BY <1>1, <1>3, JobAssumption DEF Metered, Numbered, Open
<1>5. \A v \in Workers : ~Carries(v, j, tries[w])'
  <2>1. ~Carries(w, j, tries[w])'
    BY <1>1 DEF Carries, Holding
  <2>. QED
    BY <1>1, <1>2, <1>3, <2>1 DEF CarriesLess, Metered, Numbered
<1>6. Open(j)' \subseteq Open(j) \ {tries[w]}
  BY <1>1, <1>2, <1>4, <1>5 DEF Open, CarriesLess
<1>7. /\ IsFiniteSet(Open(j) \ {tries[w]})
      /\ Cardinality(Open(j) \ {tries[w]}) = Cardinality(Open(j)) - 1
  BY <1>1, <1>4, OpenIsFinite, FS_RemoveElement
<1>8. Cardinality(Open(j)') <= Cardinality(Open(j)) - 1
  BY <1>6, <1>7, FS_Subset
<1>9. attempts'[j] + Cardinality(Open(j)') + Due(j)' <= MaxAttempts + lapses'[j]
  <2>1. /\ Cardinality(Open(j)) \in Nat /\ Cardinality(Open(j)') \in Nat
        /\ attempts[j] \in Nat /\ lapses[j] \in Nat
    BY <1>1, <1>6, <1>7, OpenIsFinite, FS_Subset, FS_CardinalityType
  <2>2. attempts[j] + Cardinality(Open(j)) + Due(j) <= MaxAttempts + lapses[j]
    BY <1>1 DEF Metered, Covered
  <2>3. Due(j) \in 0..1 /\ Due(j)' \in 0..1
    BY DEF Due
  <2>. QED
    BY <1>1, <1>8, <2>1, <2>2, <2>3, JobAssumption
<1>10. ASSUME NEW i \in Jobs, i # j
       PROVE  attempts'[i] + Cardinality(Open(i))' + Due(i)' <= MaxAttempts + lapses'[i]
  <2>1. Due(i)' = Due(i) /\ lapses'[i] - lapses[i] = 0 /\ Due(i) \in Nat
    BY <1>1, <1>10 DEF Due, Retry, RequeueJob
  <2>. QED
    BY <1>1, <1>2, <2>1, CoveredKept DEF Metered
<1>. QED
  BY <1>1, <1>2, <1>9, <1>10, NumberedKept DEF Metered, Covered

LEMMA MeteredEnqueue ==
  ASSUME TypeOK, TypeOK', Fresh, Metered, NEW c \in Clients, Enqueue(c),
         NEW j \in Jobs, j = cjob[c]
  PROVE  Metered'
<1>. USE DEF TypeOK, jobVars, workerVars, history
<1>1. /\ status[j] = "absent"
      /\ \A w \in Workers : Holding(w) => claim[w] # j
  BY DEF Enqueue, Fresh, EnqueuesNewJob, HolderHasJob
<1>2. CarriesLess /\ \A w \in Workers, t \in Nat : ~Carries(w, j, t)'
  <2>1. /\ UNCHANGED workerVars
        /\ \A i \in Jobs \ {j} : UNCHANGED <<attempts[i], worker[i]>>
    BY <1>1 DEF Enqueue
  <2>2. \A w \in Workers, t \in Nat : ~Carries(w, j, t)'
    BY <1>1, <2>1 DEF Carries, Holding
  <2>3. \A w \in Workers, i \in Jobs \ {j}, t \in Nat :
          Carries(w, i, t)' => Carries(w, i, t)
    BY <2>1 DEF Carries, Holding
  <2>4. ASSUME NEW i \in Jobs, NEW w \in Workers, NEW t \in Nat, Carries(w, i, t)'
        PROVE  Carries(w, i, t)
    <3>1. i # j
      BY <2>2, <2>4
    <3>. QED
      BY <2>3, <2>4, <3>1
  <2>. QED
    BY <2>2, <2>4 DEF CarriesLess
<1>3. \A i \in Jobs \ {j} : UNCHANGED <<attempts[i], lapses[i], Due(i), Open(i)>>
  BY <1>1 DEF Enqueue, Due, Open, Carries, Holding
<1>4. Numbered'
  <2>. SUFFICES ASSUME NEW i \in Jobs, NEW u \in Workers, NEW v \in Workers,
                       NEW t \in Nat, Carries(v, i, t)'
                PROVE  t \in 1..attempts'[i] /\ (Carries(u, i, t)' => u = v)
    BY DEF Numbered
  <2>1. i # j
    BY <1>2
  <2>. QED
    BY <1>2, <1>3, <2>1 DEF Metered, Numbered, CarriesLess
<1>5. attempts'[j] + Cardinality(Open(j)') + Due(j)' <= MaxAttempts + lapses'[j]
  <2>1. Cardinality(Open(j)') \in 0..(MaxAttempts - 1)
    <3>1. Open(j)' \subseteq 1..(MaxAttempts - 1)
      BY DEF Open
    <3>. QED
      BY <3>1, SlotsAreFinite
  <2>2. attempts'[j] = 0 /\ Due(j)' = 1 /\ lapses'[j] \in Nat
    BY <1>1 DEF Enqueue, ClientDone, Due
  <2>. QED
    BY <2>1, <2>2, JobAssumption
<1>. QED
  BY <1>3, <1>4, <1>5 DEF Metered, Covered

\* The other steps of a thread make no claim due: an end of the job undoes one.
LEMMA MeteredWorker ==
  ASSUME TypeOK, TypeOK', Metered, NEW w \in Workers, WorkerStep(w)
  PROVE  Metered'
<1>. USE JobAssumption, NameAssumption
     DEF TypeOK, jobVars, workerVars, history, ToIdle, Goto
<1>1. ASSUME CarriesLess, UNCHANGED <<attempts, lapses>>,
             \A j \in Jobs : Due(j)' <= Due(j)
      PROVE  Metered'
  <2>1. \A j \in Jobs : Due(j) \in Nat /\ lapses'[j] - lapses[j] = 0
    BY <1>1 DEF Due
  <2>2. \A j \in Jobs : Due(j)' <= Due(j) + (lapses'[j] - lapses[j])
    BY <1>1, <2>1
  <2>. QED
    BY <1>1, <2>2, NumberedKept, CoveredKept DEF Metered, Covered
<1>. USE DEF CarriesLess, Carries, Holding, Due
<1>2. CASE Start(w)
  BY <1>1, <1>2 DEF Start, RecoverOrphans, Orphans
<1>3. CASE Fetch(w)
  BY <1>1, <1>3 DEF Fetch
<1>4. CASE Settle(w)
  BY <1>1, <1>4 DEF Settle, FinishJob, StillRunning
<1>5. CASE DeadLetter(w)
  BY <1>1, <1>5 DEF DeadLetter, FinishJob, StillRunning
<1>6. CASE \/ HonourCancel(w) \/ MarkRunning(w) \/ BeginTask(w)
           \/ RunAgent(w) \/ AgentRaises(w) \/ NoteRetry(w) \/ NoteDead(w)
  BY <1>1, <1>6 DEF HonourCancel, MarkRunning, BeginTask, RunAgent, AgentRaises,
     NoteRetry, NoteDead
<1>7. CASE Crash(w) \/ StoreRaises(w)
  BY <1>1, <1>7 DEF Crash, StoreRaises
<1>8. CASE SettleRaises(w)
  BY <1>1, <1>8 DEF SettleRaises, FinishJob, StillRunning
<1>. QED
  BY <1>2, <1>3, <1>4, <1>5, <1>6, <1>7, <1>8, MeteredClaim, MeteredRetry
     DEF WorkerStep, Fault, Worker, RunJob

LEMMA MeteredOthers ==
  ASSUME TypeOK, TypeOK', Fresh, Metered,
         \/ \E c \in Clients :
              \/ Request(c) \/ ClientCrash(c)
              \/ \E k \in Keys \cup {NoKey} : Lookup(c, k)
              \/ \E j \in Jobs : Cancel(c, j)
         \/ Undeploy \/ Tick \/ UNCHANGED vars
  PROVE  Metered'
<1>. USE DEF TypeOK, jobVars, workerVars, history
<1>1. ASSUME CarriesLess, UNCHANGED attempts,
             \A j \in Jobs : Due(j)' <= Due(j) + (lapses'[j] - lapses[j])
      PROVE  Metered'
  BY <1>1, NumberedKept, CoveredKept DEF Metered, Covered
<1>2. ASSUME NEW c \in Clients, NEW j \in Jobs, Cancel(c, j) PROVE Metered'
  BY <1>1, <1>2 DEF Cancel, CancelJob, CarriesLess, Carries, Holding, Due
<1>3. ASSUME UNCHANGED <<jobVars, workerVars, lapses>> PROVE Metered'
  BY <1>1, <1>3 DEF CarriesLess, Carries, Holding, Due
<1>4. ASSUME NEW c \in Clients,
             \/ RereadRun(c) \/ CancelRun(c) \/ ClientCrash(c)
             \/ \E j \in Jobs : SaveRun(c, j)
             \/ \E k \in Keys \cup {NoKey} : Lookup(c, k)
      PROVE  UNCHANGED <<jobVars, workerVars, lapses>>
  BY <1>4 DEF RereadRun, CancelRun, ClientCrash, SaveRun, Lookup
<1>5. CASE Tick
  <2>1. CarriesLess /\ UNCHANGED attempts
    BY <1>5 DEF Tick, CarriesLess, Carries, Holding
  <2>2. \A j \in Jobs : Due(j)' <= Due(j) + (lapses'[j] - lapses[j])
    BY <1>5, JobAssumption DEF Tick, Due, Countdown
  <2>. QED
    BY <1>1, <2>1, <2>2
<1>6. CASE Undeploy \/ UNCHANGED vars
  BY <1>3, <1>6 DEF Undeploy, vars
<1>7. ASSUME NEW c \in Clients, Enqueue(c) PROVE Metered'
  BY <1>7, MeteredEnqueue DEF Enqueue, Fresh, EnqueuesNewJob, ClientPc
<1>. QED
  BY <1>2, <1>3, <1>4, <1>5, <1>6, <1>7 DEF Request

\* A job is claimed at most MaxAttempts times and once more for every lease that ran
\* out under an attempt, however late any thread is: retries decided by late workers
\* on rows read long ago never add up to more, because each number of an attempt is
\* carried by one worker and is good for one retry.
THEOREM AttemptsAreBounded == Spec => []AttemptBound
<1>1. Init => Metered
  <2>. SUFFICES ASSUME Init PROVE Metered
    OBVIOUS
  <2>1. TypeOK
    BY JobAssumption, NameAssumption
       DEF Init, TypeOK, JobStatus, RunStatus, WorkerPc, ClientPc
  <2>2. Numbered
    BY DEF Init, Numbered, Carries, Holding
  <2>3. \A j \in Jobs : attempts[j] = 0 /\ Due(j) = 0 /\ lapses[j] = 0
    BY DEF Init, Due
  <2>4. \A j \in Jobs : Cardinality(Open(j)) \in 0..(MaxAttempts - 1)
    BY <2>1, OpenIsFinite
  <2>5. Covered
    BY <2>3, <2>4, JobAssumption DEF Covered
  <2>. QED
    BY <2>2, <2>5 DEF Metered
<1>2. TypeOK /\ TypeOK' /\ Fresh /\ Metered /\ [Next]_vars => Metered'
  BY MeteredWorker, MeteredOthers DEF Next, WorkerStep, Fault
<1>3. TypeOK /\ Metered => AttemptBound
  <2>. SUFFICES ASSUME TypeOK, Metered, NEW j \in Jobs
                PROVE  attempts[j] <= MaxAttempts + lapses[j]
    BY DEF AttemptBound
  <2>1. attempts[j] + Cardinality(Open(j)) + Due(j) <= MaxAttempts + lapses[j]
    BY DEF Metered, Covered
  <2>2. /\ attempts[j] \in Nat /\ lapses[j] \in Nat /\ Due(j) \in Nat
        /\ Cardinality(Open(j)) \in Nat
    BY OpenIsFinite, JobAssumption DEF TypeOK, Due
  <2>. QED
    BY <2>1, <2>2, JobAssumption
<1>. QED
  BY <1>1, <1>2, <1>3, TypeCorrect, FreshAlways, PTL DEF Spec

-----------------------------------------------------------------------------
(* While no attempt outlasts its lease.                                    *)

Prompt == "overrun" \notin Events /\ "lag" \notin Events

LEMMA HolderWorker ==
  ASSUME TypeOK, HolderIsRecorded, NEW w \in Workers, WorkerStep(w)
  PROVE  HolderIsRecorded'
<1>. USE JobAssumption, NameAssumption
     DEF TypeOK, HolderIsRecorded, Holding, jobVars, workerVars, ToIdle, Goto
<1>1. CASE Start(w)
  BY <1>1 DEF Start, RecoverOrphans, Orphans
<1>2. ASSUME NEW j \in Jobs, Claim(w, j) PROVE HolderIsRecorded'
  BY <1>2 DEF Claim, NextInLine, Runnable
<1>3. CASE Fetch(w)
  BY <1>3 DEF Fetch
<1>4. CASE Settle(w)
  BY <1>4 DEF Settle, FinishJob
<1>5. CASE Retry(w)
  BY <1>5 DEF Retry, RequeueJob
<1>6. CASE DeadLetter(w)
  BY <1>6 DEF DeadLetter, FinishJob
<1>7. CASE \/ HonourCancel(w) \/ MarkRunning(w) \/ BeginTask(w)
           \/ RunAgent(w) \/ AgentRaises(w) \/ NoteRetry(w) \/ NoteDead(w)
  BY <1>7 DEF HonourCancel, MarkRunning, BeginTask, RunAgent, AgentRaises,
     NoteRetry, NoteDead
<1>8. CASE Crash(w) \/ StoreRaises(w)
  BY <1>8 DEF Crash, StoreRaises
<1>9. CASE SettleRaises(w)
  BY <1>9 DEF SettleRaises, FinishJob, StillRunning
<1>. QED
  BY <1>1, <1>2, <1>3, <1>4, <1>5, <1>6, <1>7, <1>8, <1>9
     DEF WorkerStep, Fault, Worker, RunJob

LEMMA HolderOthers ==
  ASSUME Prompt, TypeOK, Fresh, HolderIsRecorded,
         \/ \E c \in Clients :
              \/ Request(c) \/ ClientCrash(c)
              \/ \E k \in Keys \cup {NoKey} : Lookup(c, k)
              \/ \E j \in Jobs : Cancel(c, j)
         \/ Undeploy \/ Tick \/ UNCHANGED vars
  PROVE  HolderIsRecorded'
<1>. USE DEF TypeOK, HolderIsRecorded, Holding, jobVars, workerVars
<1>1. ASSUME NEW c \in Clients, Enqueue(c) PROVE HolderIsRecorded'
  BY <1>1 DEF Enqueue, Fresh, EnqueuesNewJob
<1>2. ASSUME NEW c \in Clients, NEW j \in Jobs, Cancel(c, j)
      PROVE  HolderIsRecorded'
  BY <1>2 DEF Cancel, CancelJob, Cancellable
<1>3. ASSUME NEW c \in Clients,
             \/ RereadRun(c) \/ CancelRun(c) \/ ClientCrash(c)
             \/ \E j \in Jobs : SaveRun(c, j)
             \/ \E k \in Keys \cup {NoKey} : Lookup(c, k)
      PROVE  HolderIsRecorded'
  BY <1>3 DEF RereadRun, CancelRun, ClientCrash, SaveRun, Lookup
<1>4. CASE Tick
  <2>. SUFFICES ASSUME NEW w \in Workers, Holding(w)
                PROVE  HolderIsRecorded!(w)'
    BY <1>4 DEF Tick
  <2>1. lease[claim[w]] = 1 => status[claim[w]] # "running"
    BY <1>4, JobAssumption DEF Tick, LeaseMayEnd, Prompt
  <2>. QED
    BY <1>4, <2>1, JobAssumption DEF Tick, Countdown
<1>5. CASE Undeploy \/ UNCHANGED vars
  BY <1>5 DEF Undeploy, vars
<1>. QED
  BY <1>1, <1>2, <1>3, <1>4, <1>5 DEF Request

\* While no attempt outlasts its lease, the row names the worker that carries
\* the attempt and its lease is running: the invariant everything below uses.
THEOREM HoldersAreRecorded == Prompt => (Spec => []HolderIsRecorded)
<1>. SUFFICES ASSUME Prompt PROVE Spec => []HolderIsRecorded
  OBVIOUS
<1>1. Init => HolderIsRecorded
  BY DEF Init, HolderIsRecorded, Holding
<1>2. TypeOK /\ Fresh /\ HolderIsRecorded /\ [Next]_vars => HolderIsRecorded'
  BY HolderWorker, HolderOthers DEF Next, WorkerStep, Fault
<1>. QED
  BY <1>1, <1>2, TypeCorrect, FreshAlways, PTL DEF Spec

\* Mutual exclusion: two workers never carry attempts of one job at a time.
THEOREM OneHolderPerJob == Prompt => (Spec => []OneHolder)
<1>1. HolderIsRecorded => OneHolder
  BY DEF HolderIsRecorded, OneHolder
<1>. QED
  BY <1>1, HoldersAreRecorded, PTL

\* The row read at claim time is current as long as the attempt lasts.
SnapshotIsCurrent ==
  \A w \in Workers : Holding(w) /\ pc[w] # "fetch" => tries[w] = attempts[claim[w]]

FaultBound == \A j \in Jobs : attempts[j] <= MaxAttempts + faults

\* A job that waits for a claim has one to spare.
SpareAttempt ==
  \A j \in Jobs :
    /\ status[j] \in {"queued", "running"}
    /\ \A w \in Workers : Holding(w) => claim[w] # j
    => attempts[j] < MaxAttempts + faults

Bounded == FaultBound /\ SnapshotIsCurrent /\ SpareAttempt

LEMMA BoundedWorker ==
  ASSUME TypeOK, Fresh, HolderIsRecorded, Bounded, NEW w \in Workers, WorkerStep(w)
  PROVE  Bounded'
<1>. USE JobAssumption, NameAssumption
     DEF TypeOK, HolderIsRecorded, Bounded, FaultBound, SnapshotIsCurrent,
         SpareAttempt, Holding, jobVars, workerVars, history, ToIdle, Goto
<1>1. CASE Start(w)
  BY <1>1 DEF Start, RecoverOrphans, Orphans
<1>2. ASSUME NEW j \in Jobs, Claim(w, j) PROVE Bounded'
  <2>1. \A v \in Workers : Holding(v) => claim[v] # j
    BY <1>2 DEF Claim, NextInLine, Runnable
  <2>2. attempts[j] < MaxAttempts + faults
    BY <1>2, <2>1 DEF Claim, NextInLine, Runnable
  <2>. QED
    BY <1>2, <2>1, <2>2 DEF Claim
<1>3. CASE Fetch(w)
  BY <1>3 DEF Fetch
<1>4. CASE HonourCancel(w)
  BY <1>4 DEF HonourCancel
<1>5. CASE Settle(w)
  BY <1>5 DEF Settle, FinishJob, StillRunning
<1>6. CASE Retry(w)
  BY <1>6 DEF Retry, RequeueJob, StillRunning, AttemptsLeft
<1>7. CASE DeadLetter(w)
  BY <1>7 DEF DeadLetter, FinishJob, StillRunning
<1>8. CASE \/ MarkRunning(w) \/ BeginTask(w) \/ RunAgent(w) \/ AgentRaises(w)
           \/ NoteRetry(w) \/ NoteDead(w)
  BY <1>8 DEF MarkRunning, BeginTask, RunAgent, AgentRaises, NoteRetry, NoteDead
<1>9. CASE Crash(w) \/ StoreRaises(w)
  BY <1>9 DEF Crash, StoreRaises
<1>10. CASE SettleRaises(w)
  BY <1>10 DEF SettleRaises, FinishJob, StillRunning
<1>. QED
  BY <1>1, <1>2, <1>3, <1>4, <1>5, <1>6, <1>7, <1>8, <1>9, <1>10
     DEF WorkerStep, Fault, Worker, RunJob

LEMMA BoundedOthers ==
  ASSUME TypeOK, Fresh, HolderIsRecorded, Bounded,
         \/ \E c \in Clients :
              \/ Request(c) \/ ClientCrash(c)
              \/ \E k \in Keys \cup {NoKey} : Lookup(c, k)
              \/ \E j \in Jobs : Cancel(c, j)
         \/ Undeploy \/ Tick \/ UNCHANGED vars
  PROVE  Bounded'
<1>. USE JobAssumption
     DEF TypeOK, Bounded, FaultBound, SnapshotIsCurrent, SpareAttempt,
         Holding, jobVars, workerVars, history
<1>1. ASSUME NEW c \in Clients, Enqueue(c) PROVE Bounded'
  BY <1>1 DEF Enqueue, Fresh, EnqueuesNewJob, HolderHasJob
<1>2. ASSUME NEW c \in Clients, NEW j \in Jobs, Cancel(c, j) PROVE Bounded'
  BY <1>2 DEF Cancel, CancelJob, Cancellable
<1>3. ASSUME NEW c \in Clients,
             \/ RereadRun(c) \/ CancelRun(c) \/ ClientCrash(c)
             \/ \E j \in Jobs : SaveRun(c, j)
             \/ \E k \in Keys \cup {NoKey} : Lookup(c, k)
      PROVE  Bounded'
  BY <1>3 DEF RereadRun, CancelRun, ClientCrash, SaveRun, Lookup
<1>4. CASE Undeploy \/ Tick \/ UNCHANGED vars
  BY <1>4 DEF Undeploy, Tick, vars, history
<1>. QED
  BY <1>1, <1>2, <1>3, <1>4 DEF Request

LEMMA BoundedAlways == Prompt => (Spec => []Bounded)
<1>. SUFFICES ASSUME Prompt PROVE Spec => []Bounded
  OBVIOUS
<1>1. Init => Bounded
  BY JobAssumption
     DEF Init, Bounded, FaultBound, SnapshotIsCurrent, SpareAttempt, Holding
<1>2. TypeOK /\ Fresh /\ HolderIsRecorded /\ Bounded /\ [Next]_vars => Bounded'
  BY BoundedWorker, BoundedOthers DEF Next, WorkerStep, Fault
<1>. QED
  BY <1>1, <1>2, TypeCorrect, FreshAlways, HoldersAreRecorded, PTL DEF Spec

\* While no attempt outlasts its lease, a claim beyond MaxAttempts goes back to a
\* fault: a thread that died, or a statement that raised outside the try.
THEOREM FaultsBuyClaims == Prompt => (Spec => []FaultBound)
<1>1. Bounded => FaultBound
  BY DEF Bounded
<1>. QED
  BY <1>1, BoundedAlways, PTL

-----------------------------------------------------------------------------
(* The run record of a job that is over.                                   *)

Unsettled == {"queued", "running"}

\* Before the record is noted nobody else is at the job: one that was requeued waits,
\* one that was dead-lettered stays so.
NoteIsFresh ==
  \A w \in Workers :
    /\ pc[w] = "note" =>
         /\ \/ status[claim[w]] = "queued" /\ wait[claim[w]] > 0
            \/ status[claim[w]] = "succeeded" /\ faults > 0
            \/ status[claim[w]] = "cancelled"
         /\ \A v \in Workers : Holding(v) => claim[v] # claim[w]
    /\ pc[w] = "bury" => status[claim[w]] \in Terminal

Reported ==
  faults = 0 =>
    /\ \A w \in Workers : pc[w] = "settle" => run[claim[w]] \notin Unsettled
    /\ \A j \in Jobs : status[j] = "succeeded" => run[j] \notin Unsettled
    /\ \A j \in Jobs : status[j] = "dead" =>
         run[j] \notin Unsettled \/ \E w \in Workers : pc[w] = "bury" /\ claim[w] = j

LEMMA NoteWorker ==
  ASSUME TypeOK, HolderIsRecorded, NoteIsFresh, NEW w \in Workers, WorkerStep(w)
  PROVE  NoteIsFresh'
<1>. USE JobAssumption, NameAssumption
     DEF TypeOK, HolderIsRecorded, NoteIsFresh, Holding, Terminal, jobVars, workerVars, history, ToIdle, Goto
<1>1. CASE Start(w)
  BY <1>1 DEF Start, RecoverOrphans, Orphans
<1>2. ASSUME NEW j \in Jobs, Claim(w, j) PROVE NoteIsFresh'
  BY <1>2 DEF Claim, NextInLine, Runnable
<1>3. CASE Fetch(w)
  BY <1>3 DEF Fetch
<1>4. CASE Settle(w)
  BY <1>4 DEF Settle, FinishJob, StillRunning
<1>5. CASE Retry(w)
  BY <1>5 DEF Retry, RequeueJob, StillRunning
<1>6. CASE DeadLetter(w)
  BY <1>6 DEF DeadLetter, FinishJob, StillRunning
<1>7. CASE \/ HonourCancel(w) \/ MarkRunning(w) \/ BeginTask(w)
           \/ RunAgent(w) \/ AgentRaises(w) \/ NoteRetry(w) \/ NoteDead(w)
  BY <1>7 DEF HonourCancel, MarkRunning, BeginTask, RunAgent, AgentRaises,
     NoteRetry, NoteDead
<1>8. CASE Crash(w) \/ StoreRaises(w)
  BY <1>8 DEF Crash, StoreRaises
<1>9. CASE SettleRaises(w)
  BY <1>9 DEF SettleRaises, FinishJob, StillRunning
<1>. QED
  BY <1>1, <1>2, <1>3, <1>4, <1>5, <1>6, <1>7, <1>8, <1>9
     DEF WorkerStep, Fault, Worker, RunJob

LEMMA NoteOthers ==
  ASSUME Prompt, TypeOK, Fresh, NoteIsFresh,
         \/ \E c \in Clients :
              \/ Request(c) \/ ClientCrash(c)
              \/ \E k \in Keys \cup {NoKey} : Lookup(c, k)
              \/ \E j \in Jobs : Cancel(c, j)
         \/ Undeploy \/ Tick \/ UNCHANGED vars
  PROVE  NoteIsFresh'
<1>. USE DEF TypeOK, NoteIsFresh, Holding, Terminal, jobVars, workerVars, history
<1>1. ASSUME NEW c \in Clients, Enqueue(c) PROVE NoteIsFresh'
  BY <1>1 DEF Enqueue, Fresh, EnqueuesNewJob
<1>2. ASSUME NEW c \in Clients, NEW j \in Jobs, Cancel(c, j)
      PROVE  NoteIsFresh'
  BY <1>2 DEF Cancel, CancelJob, Cancellable
<1>3. ASSUME NEW c \in Clients,
             \/ RereadRun(c) \/ CancelRun(c) \/ ClientCrash(c)
             \/ \E j \in Jobs : SaveRun(c, j)
             \/ \E k \in Keys \cup {NoKey} : Lookup(c, k)
      PROVE  NoteIsFresh'
  BY <1>3 DEF RereadRun, CancelRun, ClientCrash, SaveRun, Lookup
<1>4. CASE Tick
  <2>. SUFFICES ASSUME NEW w \in Workers, pc[w] = "note"
                PROVE  \/ status[claim[w]] = "queued" /\ wait'[claim[w]] > 0
                       \/ status[claim[w]] = "succeeded" /\ faults > 0
                       \/ status[claim[w]] = "cancelled"
    BY <1>4 DEF Tick
  <2>1. wait[claim[w]] # 1
    BY <1>4 DEF Tick, BackoffMayEnd, Prompt
  <2>. QED
    BY <1>4, <2>1, JobAssumption DEF Tick, Countdown
<1>5. CASE Undeploy \/ UNCHANGED vars
  BY <1>5 DEF Undeploy, vars
<1>. QED
  BY <1>1, <1>2, <1>3, <1>4, <1>5 DEF Request

\* The agent stays deployed where nobody withdraws it.
LEMMA StaysDeployed == "undeploy" \notin Events => (Spec => []deployed)
<1>. SUFFICES ASSUME "undeploy" \notin Events PROVE Spec => []deployed
  OBVIOUS
<1>1. Init => deployed
  BY DEF Init
<1>2. deployed /\ [Next]_vars => deployed'
  BY DEF Next, Worker, RunJob, Start, Claim, Fetch, HonourCancel, MarkRunning, BeginTask,
     RunAgent, AgentRaises, Settle, Retry, DeadLetter, NoteRetry, NoteDead, Crash,
     StoreRaises, SettleRaises, Request, SaveRun, Enqueue, RereadRun, CancelRun, ClientCrash, Lookup, Cancel,
     Undeploy, Tick, vars
<1>. QED
  BY <1>1, <1>2, PTL DEF Spec

LEMMA ReportedWorker ==
  ASSUME TypeOK, Fresh, HolderIsRecorded, NoteIsFresh, deployed, Reported,
         NEW w \in Workers, WorkerStep(w)
  PROVE  Reported'
<1>. USE JobAssumption, NameAssumption
     DEF TypeOK, HolderIsRecorded, NoteIsFresh, Reported, Unsettled, Holding,
         jobVars, workerVars, history, ToIdle, Goto
<1>1. CASE Start(w)
  BY <1>1 DEF Start, RecoverOrphans, Orphans
<1>2. ASSUME NEW j \in Jobs, Claim(w, j) PROVE Reported'
  BY <1>2 DEF Claim, NextInLine, Runnable
<1>3. CASE Fetch(w)
  BY <1>3 DEF Fetch
<1>4. CASE HonourCancel(w)
  BY <1>4 DEF HonourCancel
<1>5. CASE MarkRunning(w)
  BY <1>5 DEF MarkRunning
<1>6. CASE BeginTask(w)
  BY <1>6 DEF BeginTask
<1>7. CASE RunAgent(w)
  BY <1>7 DEF RunAgent
<1>8. CASE AgentRaises(w)
  BY <1>8 DEF AgentRaises
<1>9. CASE Settle(w)
  BY <1>9 DEF Settle, FinishJob, StillRunning
<1>10. CASE Retry(w)
  BY <1>10 DEF Retry, RequeueJob, StillRunning
<1>11. CASE DeadLetter(w)
  BY <1>11 DEF DeadLetter, FinishJob, StillRunning
<1>12. CASE NoteRetry(w)
  BY <1>12 DEF NoteRetry
<1>13. CASE NoteDead(w)
  BY <1>13 DEF NoteDead
<1>14. CASE Crash(w)
  BY <1>14 DEF Crash
<1>15. CASE StoreRaises(w)
  BY <1>15 DEF StoreRaises
<1>16. CASE SettleRaises(w)
  BY <1>16 DEF SettleRaises, FinishJob, StillRunning
<1>. QED
  BY <1>1, <1>2, <1>3, <1>4, <1>5, <1>6, <1>7, <1>8, <1>9, <1>10, <1>11,
     <1>12, <1>13, <1>14, <1>15, <1>16 DEF WorkerStep, Fault, Worker, RunJob

LEMMA ReportedOthers ==
  ASSUME TypeOK, Fresh, Reported,
         \/ \E c \in Clients :
              \/ Request(c) \/ ClientCrash(c)
              \/ \E k \in Keys \cup {NoKey} : Lookup(c, k)
              \/ \E j \in Jobs : Cancel(c, j)
         \/ Undeploy \/ Tick \/ UNCHANGED vars
  PROVE  Reported'
<1>. USE DEF TypeOK, Reported, Unsettled, jobVars, workerVars, clientVars, history
<1>1. ASSUME NEW c \in Clients, Enqueue(c) PROVE Reported'
  BY <1>1 DEF Enqueue
<1>2. ASSUME NEW c \in Clients, NEW j \in Jobs, Cancel(c, j) PROVE Reported'
  BY <1>2 DEF Cancel, CancelJob
<1>3. ASSUME NEW c \in Clients, NEW j \in Jobs, SaveRun(c, j) PROVE Reported'
  BY <1>3 DEF SaveRun, Fresh, JobHasRun, HolderHasJob, Holding
<1>4. ASSUME NEW c \in Clients, CancelRun(c) PROVE Reported'
  BY <1>4 DEF CancelRun
<1>5. ASSUME NEW c \in Clients, ClientCrash(c) PROVE Reported'
  BY <1>5 DEF ClientCrash
<1>6. ASSUME NEW c \in Clients,
             RereadRun(c) \/ \E k \in Keys \cup {NoKey} : Lookup(c, k)
      PROVE  Reported'
  BY <1>6 DEF RereadRun, Lookup
<1>7. CASE Undeploy \/ Tick \/ UNCHANGED vars
  BY <1>7 DEF Undeploy, Tick, vars
<1>. QED
  BY <1>1, <1>2, <1>3, <1>4, <1>5, <1>6, <1>7 DEF Request

\* While no attempt outlasts its lease, no thread dies and no agent is withdrawn, the
\* record of a run whose job succeeded or died says so once the threads are done with
\* it: however their statements interleave, none of them writes an old state over it.
THEOREM RecordsSettle == Prompt => (Spec => []RecordSettles)
<1>. SUFFICES ASSUME Prompt PROVE Spec => []RecordSettles
  OBVIOUS
<1>1. CASE "undeploy" \in Events
  <2>1. RecordSettles
    BY <1>1 DEF RecordSettles
  <2>. QED
    BY <2>1, PTL
<1>2. CASE "undeploy" \notin Events
  <2>1. Init => NoteIsFresh /\ Reported
    BY DEF Init, NoteIsFresh, Reported
  <2>2. TypeOK /\ Fresh /\ HolderIsRecorded /\ NoteIsFresh /\ [Next]_vars => NoteIsFresh'
    BY NoteWorker, NoteOthers DEF Next, WorkerStep, Fault
  <2>3. TypeOK /\ Fresh /\ HolderIsRecorded /\ NoteIsFresh /\ deployed /\ Reported /\ [Next]_vars
        => Reported'
    BY ReportedWorker, ReportedOthers DEF Next, WorkerStep, Fault
  <2>4. Reported => RecordSettles
    BY DEF Reported, RecordSettles, Quiet, Unsettled
  <2>5. Spec => []deployed
    BY <1>2, StaysDeployed
  <2>. QED
    BY <2>1, <2>2, <2>3, <2>4, <2>5, TypeCorrect, FreshAlways, HoldersAreRecorded, PTL DEF Spec
<1>. QED
  BY <1>1, <1>2

-----------------------------------------------------------------------------
(* The queue implements the state machine of JobLifecycle.                 *)

LEMMA OwnersReleased ==
  ASSUME TypeOK, HolderIsRecorded, NEW w \in Workers, Holding(w),
         pc' = [pc EXCEPT ![w] = pc'[w]], ~Holding(w)',
         claim' = [claim EXCEPT ![w] = claim'[w]]
  PROVE  /\ claim[w] \in Jobs
         /\ Owners[claim[w]] = {w}
         /\ Owners' = [Owners EXCEPT ![claim[w]] = {}]
<1>1. claim[w] \in Jobs
  BY DEF TypeOK, Holding
<1>2. \A v \in Workers : Holding(v) /\ claim[v] = claim[w] => v = w
  BY DEF HolderIsRecorded
<1>3. \A v \in Workers \ {w} : (Holding(v)' <=> Holding(v)) /\ claim'[v] = claim[v]
  BY DEF TypeOK, Holding
<1>4. Owners[claim[w]] = {w}
  BY <1>1, <1>2 DEF Owners
<1>5. ASSUME NEW j \in Jobs
      PROVE  {v \in Workers : Holding(v)' /\ claim'[v] = j}
             = IF j = claim[w] THEN {} ELSE Owners[j]
  <2>1. \A v \in Workers : Holding(v)' /\ claim'[v] = j
                           <=> Holding(v) /\ claim[v] = j /\ j # claim[w]
    BY <1>2, <1>3
  <2>2. CASE j = claim[w]
    BY <2>1, <2>2
  <2>3. CASE j # claim[w]
    BY <2>1, <2>3 DEF Owners
  <2>. QED
    BY <2>2, <2>3
<1>6. Owners' = [j \in Jobs |-> IF j = claim[w] THEN {} ELSE Owners[j]]
  BY <1>5 DEF Owners
<1>7. Owners = [j \in Jobs |-> Owners[j]]
  BY DEF Owners
<1>. QED
  BY <1>1, <1>4, <1>6, <1>7

LEMMA WorkerRefines ==
  ASSUME TypeOK, HolderIsRecorded, Bounded, NEW w \in Workers, WorkerStep(w)
  PROVE  Lifecycle!Next \/ UNCHANGED Lifecycle!vars
<1>. USE DEF TypeOK, ToIdle, Goto, jobVars, workerVars, Lifecycle!vars
<1>1. CASE Start(w)
  <2>1. Owners' = Owners
    BY <1>1 DEF Start, Owners, Holding
  <2>2. \A j \in Orphans : status[j] = "running" /\ Owners[j] = {}
    BY JobAssumption DEF Orphans, Owners, HolderIsRecorded
  <2>3. Lifecycle!Recover(Orphans)
    BY <1>1, <2>1, <2>2 DEF Start, RecoverOrphans, Lifecycle!Recover
  <2>4. Orphans \in SUBSET Jobs
    BY DEF Orphans
  <2>. QED
    BY <2>3, <2>4 DEF Lifecycle!Next
<1>2. ASSUME NEW j \in Jobs, Claim(w, j) PROVE Lifecycle!Next
  <2>1. \A v \in Workers : Holding(v) => claim[v] # j
    BY <1>2, JobAssumption DEF Claim, NextInLine, Runnable, HolderIsRecorded
  <2>2. Owners[j] = {} /\ \A i \in Jobs : w \notin Owners[i]
    BY <1>2, <2>1 DEF Claim, Owners, Holding
  <2>3. Owners' = [Owners EXCEPT ![j] = {w}]
    <3>1. \A v \in Workers : Holding(v)' <=> v = w \/ Holding(v)
      BY <1>2 DEF Claim, Holding
    <3>2. ~Holding(w) /\ \A v \in Workers : claim'[v] = IF v = w THEN j ELSE claim[v]
      BY <1>2 DEF Claim, Holding
    <3>3. \A i \in Jobs : {v \in Workers : Holding(v)' /\ claim'[v] = i}
                         = IF i = j THEN {w} ELSE Owners[i]
      BY <2>1, <3>1, <3>2 DEF Owners
    <3>. QED
      BY <3>3 DEF Owners
  <2>4. Lifecycle!Claim(j, w)
    BY <1>2, <2>2, <2>3 DEF Claim, NextInLine, Runnable, Lifecycle!Claim
  <2>. QED
    BY <2>4 DEF Lifecycle!Next
<1>3. CASE Holding(w) /\ Holding(w)' /\ (RunJob(w) \/ Fault(w))
  <2>1. UNCHANGED <<status, attempts>>
    BY <1>3 DEF RunJob, Fetch, HonourCancel, MarkRunning, BeginTask, RunAgent,
       AgentRaises, Settle, Retry, DeadLetter, NoteRetry, NoteDead, Holding,
       Fault, Crash, StoreRaises, SettleRaises, FinishJob
  <2>2. \A v \in Workers : (Holding(v)' <=> Holding(v)) /\ claim'[v] = claim[v]
    BY <1>3 DEF RunJob, Fetch, HonourCancel, MarkRunning, BeginTask, RunAgent,
       AgentRaises, Settle, Retry, DeadLetter, NoteRetry, NoteDead, Holding,
       Fault, Crash, StoreRaises, SettleRaises, FinishJob
  <2>. QED
    BY <2>1, <2>2 DEF Owners
<1>4. CASE Holding(w) /\ ~Holding(w)' /\ (RunJob(w) \/ Fault(w))
  <2>. DEFINE j == claim[w]
  <2>1. /\ j \in Jobs
        /\ Owners[j] = {w}
        /\ Owners' = [Owners EXCEPT ![j] = {}]
    <3>1. /\ pc' = [pc EXCEPT ![w] = pc'[w]]
          /\ claim' = [claim EXCEPT ![w] = claim'[w]]
      BY <1>4 DEF RunJob, Fetch, HonourCancel, MarkRunning, BeginTask, RunAgent,
         AgentRaises, Settle, Retry, DeadLetter, NoteRetry, NoteDead,
         Fault, Crash, StoreRaises, SettleRaises
    <3>. QED
      BY <1>4, <3>1, OwnersReleased
  <2>2. \/ Lifecycle!Leave(j) \/ Lifecycle!Succeed(j)
        \/ Lifecycle!Retry(j) \/ Lifecycle!DeadLetter(j)
    <3>. USE DEF Lifecycle!Leave, Lifecycle!Release, Bounded, SnapshotIsCurrent
    <3>1. CASE Settle(w)
      BY <3>1, <2>1 DEF Settle, FinishJob, StillRunning, Lifecycle!Succeed
    <3>2. CASE Retry(w)
      BY <1>4, <3>2, <2>1
         DEF Retry, RequeueJob, StillRunning, AttemptsLeft, Lifecycle!Retry
    <3>3. CASE DeadLetter(w)
      BY <1>4, <3>3, <2>1, JobAssumption
         DEF DeadLetter, FinishJob, StillRunning, AttemptsLeft, Lifecycle!DeadLetter
    <3>4. CASE Fetch(w) \/ HonourCancel(w) \/ Crash(w) \/ StoreRaises(w)
      BY <3>4, <2>1 DEF Fetch, HonourCancel, Crash, StoreRaises
    <3>5. CASE SettleRaises(w)
      BY <1>4, <3>5, <2>1
         DEF SettleRaises, FinishJob, StillRunning, Holding, Lifecycle!Succeed
    <3>. QED
      BY <1>4, <3>1, <3>2, <3>3, <3>4, <3>5 DEF Fault, RunJob, MarkRunning, BeginTask,
         RunAgent, AgentRaises, NoteRetry, NoteDead, Holding
  <2>. QED
    BY <2>1, <2>2 DEF Lifecycle!Next
<1>5. CASE ~Holding(w) /\ (RunJob(w) \/ Fault(w))
  <2>1. UNCHANGED <<status, attempts>> /\ ~Holding(w)'
    BY <1>5 DEF RunJob, Fetch, HonourCancel, MarkRunning, BeginTask, RunAgent,
       AgentRaises, Settle, Retry, DeadLetter, NoteRetry, NoteDead, Holding,
       Fault, Crash, StoreRaises, SettleRaises
  <2>2. \A v \in Workers \ {w} : (Holding(v)' <=> Holding(v)) /\ claim'[v] = claim[v]
    BY <1>5 DEF RunJob, Fetch, HonourCancel, MarkRunning, BeginTask, RunAgent,
       AgentRaises, Settle, Retry, DeadLetter, NoteRetry, NoteDead, Holding,
       Fault, Crash, StoreRaises, SettleRaises
  <2>. QED
    BY <1>5, <2>1, <2>2 DEF Owners
<1>. QED
  BY <1>1, <1>2, <1>3, <1>4, <1>5 DEF WorkerStep, Worker

LEMMA OthersRefine ==
  ASSUME TypeOK, Fresh,
         \/ \E c \in Clients :
              \/ Request(c) \/ ClientCrash(c)
              \/ \E k \in Keys \cup {NoKey} : Lookup(c, k)
              \/ \E j \in Jobs : Cancel(c, j)
         \/ Undeploy \/ Tick \/ UNCHANGED vars
  PROVE  Lifecycle!Next \/ UNCHANGED Lifecycle!vars
<1>. USE DEF TypeOK, jobVars, workerVars, Lifecycle!vars
<1>1. Owners' = Owners
  <2>1. UNCHANGED <<pc, claim>>
    BY DEF Request, SaveRun, Enqueue, RereadRun, CancelRun, ClientCrash, Lookup,
       Cancel, Undeploy, Tick, vars
  <2>. QED
    BY <2>1 DEF Owners, Holding
<1>2. ASSUME NEW c \in Clients, Enqueue(c) PROVE Lifecycle!Next
  <2>1. Lifecycle!Enqueue(cjob[c])
    BY <1>1, <1>2 DEF Enqueue, Fresh, EnqueuesNewJob, Lifecycle!Enqueue
  <2>. QED
    BY <1>2, <2>1 DEF Enqueue, Lifecycle!Next
<1>3. ASSUME NEW c \in Clients, NEW j \in Jobs, Cancel(c, j)
      PROVE  Lifecycle!Next \/ UNCHANGED Lifecycle!vars
  BY <1>1, <1>3 DEF Cancel, CancelJob, Cancellable, Lifecycle!Cancel, Lifecycle!Next
<1>4. ASSUME NEW c \in Clients,
             \/ RereadRun(c) \/ CancelRun(c) \/ ClientCrash(c)
             \/ \E j \in Jobs : SaveRun(c, j)
             \/ \E k \in Keys \cup {NoKey} : Lookup(c, k)
      PROVE  UNCHANGED Lifecycle!vars
  BY <1>1, <1>4 DEF RereadRun, CancelRun, ClientCrash, SaveRun, Lookup
<1>5. CASE Undeploy \/ Tick \/ UNCHANGED vars
  BY <1>1, <1>5 DEF Undeploy, Tick, vars
<1>. QED
  BY <1>2, <1>3, <1>4, <1>5 DEF Request

\* While no attempt outlasts its lease, the interleaved statements of all the
\* threads amount to steps of the state machine: one owner per attempt, retries
\* below MaxAttempts, dead letters from MaxAttempts on.
THEOREM QueueImplementsLifecycle == Prompt => (Spec => ImplementsLifecycle)
<1>. SUFFICES ASSUME Prompt PROVE Spec => Lifecycle!Spec
  BY DEF ImplementsLifecycle
<1>1. Init => Lifecycle!Init
  BY DEF Init, Lifecycle!Init, Owners, Holding
<1>2. TypeOK /\ Fresh /\ HolderIsRecorded /\ Bounded /\ [Next]_vars
      => [Lifecycle!Next]_(Lifecycle!vars)
  BY WorkerRefines, OthersRefine DEF Next, WorkerStep, Fault
<1>. QED
  BY <1>1, <1>2, TypeCorrect, FreshAlways, HoldersAreRecorded, BoundedAlways, PTL
     DEF Spec, Lifecycle!Spec

=============================================================================
