# A TLA+ model of Fingent

Fingent (`src/README.md`) builds and runs AI agents for financial services. An
agent is a stored *spec* that a model proposed and a validator reduced to what
it may do; one governed kernel runs it, a durable queue carries runs off the
request thread, a supervisor runs teams of agents, and risky runs wait for a
human. This directory models the parts of `src/backend/fingent/` where order,
interleaving and failure decide whether that is safe, checks the models with
TLC and proves the most important results with TLAPS.

Paths below are relative to `src/backend/fingent/`; `PROJECT.json` gives the
lines each definition translates.

## 1. Inventory

| Component | State | Operations | What is hard about it |
|---|---|---|---|
| Durable job queue: `jobs.py`, the jobs table of `store.py` | row per job: status, attempts, worker, lease, due time, key; the run record | submit, claim, run, finish, requeue, dead-letter, cancel, recover on start | several threads and processes, deaths anywhere, store calls that raise and are swallowed, leases that expire under a live worker, cancel against finish |
| Agent kernel: `runtime.py`, `middleware.py` | the run's steps, flags, observations, held call, status | decide (model or rules), govern and invoke, budget, overseer, risk score; all of it twice, plain and streamed | the model asks for anything in any order; the status is rewritten four times at the end; two loops that must agree |
| Human review: `platform.py` `resolve_review` | run record | reject, sign off, approve and resume | reads a record, runs an agent for seconds, writes the record; two reviewers; an agent withdrawn or edited since |
| Supervisor: `planner.py` | plan graph, executed agents, pause, error | plan, validate, fall back, dispatch, adapt, finalize | any plan and revision from the model; cycles; halting |
| Blackboard: `blackboard.py` | versions and digests per key | write, read | access lists; de-duplication against latest value |
| Dependency resolver: `dependencies.py` | none | check, collect the provisioning chain | cycles, shared prerequisites |
| Compiler and validator: `compiler.py`, `validators.py` | templates, specs | propose, validate and repair | least privilege and floors after any proposal |
| Agent lifecycle: `platform.py` | specs, templates, deploy tokens | create with prerequisites, crystallize, update, duplicate, delete, deploy, undeploy | recursion, other requests between any two steps, edits that skip the validator |
| Tool and MCP registry: `registry.py` | descriptors and callables in memory, servers in the store | register, approve, refresh, load on start | memory against store, restarts, names shared by tenants |
| MCP client: `mcp_client.py` | session | initialize, list, call | pages, streams, foreign messages, failures |
| Vault: `vault.py` | key, ciphertexts | attach, put, resolve, delete | key creation by two processes |
| Sessions and accounts: `app.py`, `auth.py` | users, sessions, login failures | sign-up, login with lock-out, logout, invoke | read-check-write without locks, restarts |
| Chat and memory: `chat.py`, `memory.py` | histories, memories | a turn, recall, remember | overlapping turns, clients that leave, models that change |
| Model provider `llm.py`, tracing `observability.py`, tools `tools_native.py` `realtools.py`, template data `templates.py`, `hashpw.py`, frontend, Docker files, `src/backend/demo_*.py` | | | data, presentation or I/O; not modelled |

**How they interact.** A request thread of `app.py` calls `Fingent`
(`platform.py`). An asynchronous invocation stores a run record, then a job
row; workers claim rows and call `run_task`, which looks the spec up and enters
the kernel; the kernel persists its result over the same run record. A review
request reads that record and may enter the kernel again with one tool
approved. The supervisor calls the kernel's `run_node` once per agent and
passes results on through a blackboard that lives as long as the run. A chat turn
enters the kernel's streamed copy. Creating an agent goes through the compiler,
the validator, which asks the registry what the tenant may use, and the resolver,
which asks the store what is there already. The registry discovers tools through
the MCP client with headers from the vault. Threads
share the database and, within a process, the registry, the chat histories and the
login counters; every SQL statement is a transaction of its own and
nothing locks a row between two of them. So the unit of interleaving is the
store call, and the models have one action per store call wherever several
threads meet.

**What makes each component correct**: a job has one holder at a time, reaches
a final state, and final states are final; a key names one job; a run calls
only what was granted and, if it changes the world, what was approved, and
stops at the first refusal; its status is no better than its flags; a held
action fires by its approval, once, and not after a rejection; a team's agents
run once each, after their producers, and stop when one of them must be looked
at; a stored agent holds no more than its template, its tenant and its approvals
allow, and was built after what it needs; only approved servers' tools are
offered, all of them, and again after a restart; secrets stay readable; accounts,
lock-outs and revocations hold whatever overlaps; a conversation remembers whole
turns. `PROJECT.json` lists the hazards behind each of these with their lines.

## 2. Modules

| Module | Contents |
|---|---|
| `JobLifecycle` | the state machine documented in `jobs.py:16-20`, with the set of owners of each job: what the queue promises |
| `JobQueue` | the queue as it is written: statements of `Store`, worker threads (`_run_job` from store call to store call), request threads (`submit`, `cancel`), time, deaths and statements that raise |
| `KernelContract` | what any run of the kernel may do, as predicates on grant, approvals and result: `Governed`, `InOrder`, `Thorough` |
| `AgentRun` | one run of the kernel: `run`, `run_node`, `_llm_step`, `_decide_demo`, `_govern_and_invoke`, `_hard_fail_if_degraded`, `_risk_score` |
| `StreamRun` | `run_stream`, the second loop, with a client that may leave; shown to implement `AgentRun` |
| `Review` | a run record, its worker, and any number of reviewers in `resolve_review`; it uses the kernel through `KernelContract` |
| `Supervisor` | a supervised run: the dependency order, plans and revisions of a model, dispatch, halt, finalizer, and the blackboard |
| `SpecValidator` | `validate_spec`, `validate_inputs` and the registry lookups they rest on, as operators |
| `Resolver` | `check` and `_collect_chain` as recursive functions, with a reference definition (`IsBottomUp`) |
| `Assembly` | composes the two: `create_agent` as a stack of its recursive calls, and every other request that changes specs or templates |
| `McpClient` | a discovery session: what becomes of any sequence of answers |
| `Vault` | the key and the ciphertexts, used by several processes |
| `Registry` | composes the two: rows, descriptors, registrations under way, processes that start and die |
| `Requests` | the request threads of a process |
| `Accounts`, `Deployments`, `Chat` | three kinds of request, each with its tables and process memory |
| `Service` | composes the three over one set of threads, with restarts |
| `MC*` | values of the constants for TLC |
| `*Proofs` | theorems and proofs |

**Correspondence.** Variables are columns and locals of the code. In `JobQueue`
`status, attempts, worker, lease, wait, key` are the columns of `jobs`
(`lease` and `wait` as the time left, so that `Tick` counts down and the state
space is finite), `run` is the status column of the run record, `pc[w]` is where
`_run_job` is between two store calls, `tries[w]` the attempts of the row it
read. `Claim` and `Fetch` are the UPDATE and the SELECT of `claim_job`. What raises
inside the `try` of `_run_job` is `AgentRaises` and `SettleRaises`; what raises outside
of it is `StoreRaises`, which leaves the row as it is, for `_poll_loop` swallows it.
`faults` counts deaths and raised statements, `lapses[j]` the leases that ran out on the
running row of j; both are history. In
`AgentRun`, `calls` is what is left of the model's current turn, `seen` the
observations as pairs of tool and outcome, `flags` the counts of each kind of
flag, `pending` the held tool. `Seal` is everything between the loop and
`return` in `run_node`, and `Score` the rest of `run`. In `Review`, `read[r]` is
the record a reviewer decided on and `resumed[r]` the record of the resumed run;
`grant` is the allow-list the agent has in the store, `spec[r]` the one a reviewer's
`get_spec` returned, which an edit since the hold may have changed, and `usable[r]`,
history, what of it the process that resumed the run still knew.
In `Supervisor`, `stack` holds the calls of the recursive `visit` with the
dependencies each has still to visit: recursion becomes an explicit stack, which
also shows that a cycle cannot make it run on; `draft` is the part of a model's
answer read so far, `queue` the rest of `graph.steps`.

In `Assembly`, `specs`, `enabled` and `templates` are the tables, and `frames` the
calls of `create_agent` that are under way, innermost first: `Descend` is the call
in `_auto_provision`, `todo` what is left of `creation_order`. Its history
variables say what no column does: `marks` how a stored spec came about (which tools
were approved for it, which for the agents it is a copy of, whether it was edited past
the validator), `excused` which prerequisites the creation under way has given up, `lost`
what other requests took away or changed during it. In
`Registry`, `rows` is the table, `memory[p]` the descriptors of process p,
`handlers` the calls of `register_mcp_server`, each with the server object it has
in hand; `owed` is history, what a restart must bring back. In `Vault`,
`credentials` holds for each ciphertext the key it was made with, `cipher[p]` the
key in use by p and `found[p]` what `_init_cipher` read. In `Service`,
`requests[t]` is the handler in thread t with the step it has come to; `tries`,
`overlapped`, `revoked` and `recorded` are history.

**Refinement.** `KernelContract` joins two modules: `AgentRun` is checked and proved
to satisfy it (`RunIsGoverned`, `RulesInOrder`), `Review` assumes no more than it. A
reviewer's resume is any result the contract allows. `JobQueue` implements
`JobLifecycle` (`ImplementsLifecycle`), `StreamRun` implements `AgentRun`
(`ImplementsRun`), which carries the theorems about the kernel over to chat; the
mapping hides one thing, the prose that the sweep composes although it was stopped
at the gate.

## 3. Runs

Ten runs must pass. Sizes are of one run with two TLC workers.

| Run | Shows | Bounds | States |
|---|---|---|---|
| `JobQueue_prompt` | one holder per job; keys unique; records settled; the statements implement `JobLifecycle` | 2 jobs, 2 workers, 1 request thread, 1 key, 2 attempts, 1 fault (a death or a statement that raises), cancellation | 1 050 000 |
| `JobQueue_overrun` | every job settles, though attempts outlast leases; only a lease that ran out buys a claim beyond the limit | 1 job, 2 workers, 1 fault, cancellation, withdrawal | 168 000 |
| `AgentRun_governed` | what a run may call, in which order, where it stops, what success means, when risk is reviewed, that it ends | 3 tools, two side-effecting, one no longer registered; every outcome of a call; 2 calls a turn, granted or not; step limits below, at and above the allow-list; high and low risk, with and without review | 1 090 000 |
| `StreamRun` | the streamed loop does nothing the plain one could not | 3 tools, 2 calls a turn, step limits 1 and 2, all settings of risk, review and source policy, and a run without the scan | 1 230 000 |
| `Review_any` | side effects only through the approval of a record that held them | 2 reviewers, 2 side-effecting tools of which edits may take one, decisions at any time, 1 death | 1 960 000 |
| `Review_serial` | reviews that do not overlap: no second firing, nothing denied fires, approvals come to an end | 1 reviewer, 1 side-effecting tool that edits may take and the process may not know, withdrawal, 1 death | 2 824 |
| `Supervisor_team` | who runs, how often, in which order, what the board shows | 6 teams of up to 4 agents, one of them without a grant to write, both modes, strict or not, all statuses, 2 outputs, 2 revisions | 170 000 |
| `Assembly` | what a stored agent holds; which guardrails it has; that prerequisites come first and provisioning ends | 2 tenants, 6 templates, 8 requests to create, 2 proposals, 3 edits; 4 operator requests with the rules engine, 2 with a model; 3 calls deep; 2 attempts | 239 000 |
| `Registry` | what is offered, completely, after restarts; that secrets stay readable | 2 tenants with one server name, 2 processes, 2 overlapping handlers, 2 requests, 1 death, 1 change of a server, 2 pages, 2 keys | 965 000 |
| `Service` | lock-out, revocation, accounts and conversations under overlapping requests and a restart | 2 threads, 4 requests, 1 name, 2 passwords, 2 wrong attempts, 2 tokens, 3 embedding models, histories of 2 messages | 535 000 |

**Why the bounds are enough.** Each makes the interesting case happen.
Two workers and one fault (`MaxFaults`) give a claim that is taken over from the dead or
from one that gave up, a stale worker and a recovery by a process that starts
meanwhile; two attempts give a retry and a dead letter; `MaxClaims` (9) bounds the claims
of a job in the guard of `Claim` and is never reached: `FaultsBuyClaims` allows three in
`JobQueue_prompt`, and in `JobQueue_overrun`, where overlapping attempts each
requeue the job, TLC finds six at most.
`LeaseTicks`, `BackoffCap` and `AgeLimit` are 1: the guards ask only whether a
time has passed and which of two due times is older. Three tools are what it
takes for a call after a held call after a call. The six teams are a chain selected
backwards, a cycle, two synthesis agents, an agent beside its copy, an agent
whose producer is missing, and four agents with a synthesis, the fewest that
let a plan be revised twice (`_MAX_REPLANS`).
An agent in `Review` has one of two allow-lists (`Grants`), with the tool in question
and without it; `Registries` says what a process may know, everything or all but that
tool. `Review_any`, about what fires, takes all as known; a withdrawal only leads to
the sign-off, which `Review_serial` covers.
The catalogue of `Assembly` has a chain of three with a soft shortcut, a
prerequisite that two templates share, a cycle and a form that defaults do not
fill; three nested calls are one more than the chain needs, so that `TooDeep` is
reached only where provisioning goes round; four requests are a creation and
three requests that meet it, or a from-scratch agent, its copy and an edit of
that. In `Registry` one server is listed on exactly as many pages as the cap and
the other on one more; the death and the two processes give a start on rows that
a registration in the other process is half-way through. In `Service` four
requests fill a lock-out of two while the other thread is past the check, or an
undeploy between the steps of a deploy, or two turns and what they leave; a
history of two messages is at its limit after one turn.
Symmetry is used only where a run
has no liveness property (`ImplementsLifecycle` has no fairness).

**Deadlock** is checked for the queue, which never stops. Runs of agents, reviews
and teams end, and the requests of the other models run out, so their
configurations say `CHECK_DEADLOCK FALSE`.

**Fairness.** `JobQueue`'s `FairSpec` is weakly fair to each worker thread (it
polls for ever, and `docker-compose.yml` restarts a dead process), to requests
already begun, and to time; not to what users decide, and not to faults, of which there
are finitely many. `AgentRun`'s
is weakly fair to the run: model and tool calls have timeouts, so they return or
raise. `Review`'s `PatientSpec` also lets reviewers keep approving: that is an
assumption about people, and `ApprovalsFinish` says what it buys. `StreamRun`,
`Assembly`, `Registry` and `Service` are checked for safety only: a stream has no
timeout of its own and stops when its client does, and what the others do next is
up to operators.

## 4. Where the code and its documentation disagree

Two runs must be refuted by TLC; each checks what a document or comment says.

| Run | Statement | What happens |
|---|---|---|
| `JobQueue_double_submit` | "an idempotency_key dedupes re-submits" (`jobs.py:10`) | two concurrent requests both look the key up, find nothing, and both enqueue (`jobs.py:50`); the index on the key is not unique |
| `Review_race` | "Rejection cancels the held action" (`platform.py:286`) | an approval under way fires it after the rejection was saved: the status is not checked again |

Met while modelling, visible in the models, and without a run of their own:

*Queue*

* A lease is never renewed: an attempt longer than `FINGENT_JOB_LEASE` runs twice
  at once (`jobs.py:36`, against `jobs.py:7-8`). `JobQueue_overrun` allows it;
  `OneHolder` is stated and proved for attempts that end in time.
* `finish_job` and `requeue_job` check the status, not the worker
  (`store.py:633`, against the comment above it), so a worker that lost its claim
  ends the attempt of the new holder.
* `claim_job` does not look at `max_attempts` (`store.py:620`): each lease that runs out
  under the last attempt buys another. A death is one way to it; another is a store
  call that raises outside the `try` of `_run_job` (`jobs.py:131-138`) or in its handler,
  or the SELECT of `claim_job`: `_poll_loop` swallows it (`jobs.py:106`) and the row stays
  running until its lease ends. `AttemptBound` counts these leases.
* `finish_job('succeeded')` is inside the `try` (`jobs.py:145`): if its SELECT raises
  after the UPDATE was committed, the handler finds the row settled and leaves it, but
  sets the run record to queued or failed (`SettleRaises`).
* A cancelled attempt that fails sets the run record back to queued
  (`jobs.py:157`); the record written after a requeue may also overwrite the
  result of the next attempt (`jobs.py:155`). `RecordSettles` leaves cancelled jobs
  out and assumes no "lag". A death between `finish_job('dead')` and `save_run`
  leaves the record running (`jobs.py:164`).
* A withdrawn agent makes `run_task` return a refusal instead of raising, so its
  job succeeds and the record stays running (`platform.py:230`), although
  `tests/test_jobs.py:35` expects a final status of a succeeded job.
* A retry runs the agent from the start, side effects included (`jobs.py:146`).

*Kernel and review*

* The token budget is never charged (`runtime.py:215`).
* The overseer's ANNOTATE raises a flag but leaves a success as it is
  (`runtime.py:268`, against `src/README.md:95-100`), and its BLOCK replaces the
  `needs_review` of a held call (`runtime.py:267`).
* The sweep of `run_stream` has no `budget.step()`, so no timeout
  (`runtime.py:1072`); it composes prose even when a call was denied or held; the
  input is not scanned for personal data. Tokens of an answer reach the client
  before the overseer sees it, and the client that leaves takes the run record
  with it although tools have fired (`runtime.py:1149` is never reached).
* With two side-effecting tools a resume approves one and starts afresh, so the one
  approved before is held again, for ever (`platform.py:318`, against "continues to
  a governed final answer", `platform.py:286`); hence one side-effecting tool in
  `Review_serial`.
* The first model turn is to "require" a tool, so that it "cannot answer a
  financial-services task from the model's memory alone" (`runtime.py:350-351`); where the
  gateway refuses that, `chat` asks again with "auto" (`llm.py:138-140`), and the answer
  may come without any tool. `ModelAnswers` allows it; nothing is claimed about grounding.
* The held call is dropped and the model asked anew; it may answer without it and
  the run counts as approved (`platform.py:316`, against "executed now",
  `src/README.md:105`). `ApprovedHasFired` is checked for the rules engine.
* With the rules engine too: an approval reads the agent anew (`platform.py:314`). If an
  edit took the held tool from it since the hold (`platform.py:355-390`), or the process
  does not know the tool any more, the sweep succeeds without it and the run is saved as
  approved though nothing fired. `ApprovedHasFired` names these two cases and no other.
* A death between the resumed run and the decision loses the decision
  (`platform.py:327`); before the resumed record is saved, it leaves the old one, which
  still holds the action that has fired, and the next approval fires it again. Hence
  `crashes = 0` in `FiresOnce` and `DeniedNeverFired`.

*Supervisor*

* strict "forces every supplied agent to appear in the plan" (`planner.py:149`); in
  the dependency order an agent named like the template of another is dropped:
  `_by_name` lets the copy shadow its original (`planner.py:473`).
  `StrictRunsUnshadowed` is proved, `StrictRunsAll` does not hold.
* The finalizer's review or block is reported neither in `hitl_pause` nor in
  `error` (`planner.py:433`); with two synthesis agents a revision can put others
  after the first; a revision of the wrong JSON shape raises outside the try that
  calls adaptation "never fatal" (`planner.py:288-296`): `ReviseRaises`.
* Three agents writing x, y, x to one key leave y on the blackboard
  (`blackboard.py:56`), hence the bound of two writers in `BoardIsCurrent`.

*Assembly*

* With a model, provisioning may create what it is creating until Python's
  recursion limit: `creation_order` is computed from templates
  (`dependencies.py:57-69`), while the agent built from a template depends on what
  the model proposed. `NoRunaway` is about the rules engine; with a model
  `TooDeep` is reached.
* Without a model a template can be created while it is being created if other
  requests both take away an agent that the creation under way counts on (so that a
  nested call misses it) and add another (so that the nested call sees no cycle).
  With a cycle of three templates and an agent made by hand in place of the third,
  the creation of the first descends to the second; if the stand-in is then copied
  under the second's name and deleted, the nested call provisions the first again.
  The run's catalogue has no such cycle; the proof of `NoRunaway` met the case, hence
  its premise that nothing is taken away (`lost = {}`).
* The model's proposal may leave out the dependencies of its template, which then
  count for nothing (`compiler.py:193-210`).
* An edit of guardrails without tools does not pass the validator
  (`platform.py:359-364`, against `validators.py:10-12`): floors of the template and
  the list of allowable identifiers no longer hold. `FloorsHold` exempts such specs
  until their next validated edit.
* A copy takes along what was approved for its original: `duplicate_agent` saves the spec
  under the new name, side-effecting tools included, and neither validates nor asks for
  approval (`platform.py:415-425`), while creating the same agent would
  (`validators.py:10-12`). `LeastPrivilege` keeps the two apart: `approved` is what was
  approved for the agent itself, `inherited` what was for those it is a copy of.
* What the model proposes is validated outside the compiler's `try`
  (`compiler.py:155-159`): a proposal that the validator cannot read raises out of
  `create_agent` and of every creation around it (`ValidatorRaises`), instead of being
  asked for again.
* A copy of an agent without a template keeps the namespaces of its original; an
  edit of its tools renames the grant only (`platform.py:421`, `:383`), so what it
  writes is refused by the blackboard, silently (`planner.py:383-384`). The team
  of four in `Supervisor_team` has such a member.
* Crystallized templates are stored under `custom_<name>` for all tenants: a second
  tenant's agent of that name makes no template and may use the first's
  (`platform.py:163-165`).

*Registry, client, vault*

* Any caller with write permission registers servers, approved by default
  (`app.py:686-699`); the approval that `OnlyApprovedGrantable` speaks of is that flag, not
  an administrator's decision.
* Re-registering a server without approval removes nothing from memory: its tools
  stay grantable until the process ends (`registry.py:105`); so do tools a server
  no longer lists (`registry.py:188`). Hence "approved once" in
  `OnlyApprovedGrantable`.
* The row is saved without its tools before the discovery (`registry.py:102`): a
  death in between, or a discovery that fails, loses what was cached for the next
  start. `owed` is therefore what the last registration that met no other reported.
* Descriptors are keyed by "server.tool" alone (`registry.py:191`): of two tenants
  with one server name the last to register owns the descriptors.
* A server's own request whose id equals the awaited one is returned by `_read_sse`
  as the answer and read as an empty result (`mcp_client.py:124`); a stream of
  events has no overall timeout.
* "generated once" (`vault.py:12`): of two processes that start on an empty store the
  second replaces the key; the first goes on with its own until it restarts
  (`vault.py:49-53`). `SecretsReadable` is conditional on that.

*Service*

* Deploy enables and issues in two statements, undeploy disables and revokes in
  two: the token just issued may be revoked, or belong to an agent that is
  disabled; an edit that overlaps an undeploy saves the spec enabled again, and a copy or
  a new agent under the name of an undeployed one replaces and enables it at any time
  (`platform.py:124`, `:423`); deleting an agent leaves its tokens. In open dev mode a revoked token still lets its
  holder in, as everyone (`app.py:154`).
* A login that succeeds clears a lock that was set meanwhile (`app.py:247`).
* Two sign-ups of one name that overlap both succeed, with the second's password
  (`app.py:281-284`).
* An answer that was blocked or failed is appended to the history and remembered
  like any other (`chat.py:84-95`).
* When the embedding provider fails, the lexical vector is stored under the model's
  name (`memory.py:188-195`), and never recalled as its length differs. With
  `FINGENT_EMBED_DIM` set to that length it would be compared with the model's:
  `ModelsNotMixed` assumes the default lengths.
* Not modelled: memory ids can collide (`memory.py:262`, milliseconds and a hash
  below 100 000, upserted); a Pinecone back end that fails leads to a new, empty
  `LocalVectorMemory` at each call.

## 5. Theorems

Everything below holds for all values of the constants under the named
assumptions of the modules (`JobAssumption`, `NameAssumption`, `ToolAssumption`,
`RunAssumption`, `ReviewAssumption`, `TeamAssumption`, `ValidatorAssumption`,
`NamesAssumption`, `AssemblyAssumption`, `VaultAssumption`, `McpAssumption`,
`RegistryAssumption`, `AbsentAssumption`, `RequestsAssumption`, `AccountsAssumption`,
`ChatAssumption`, `ServiceAssumption`), which TLC evaluates. A theorem that needs
more says so in its statement. Every invariant and every safety property of a
step that a passing run checks is also a theorem; some theorems are about properties
that no run checks any more, which left their place to others once they were proved.

**Queue** (`JobQueueProofs`). With no assumption on timing, and with "lag", where
a thread may be held up for ever between two statements: `TypeCorrect`,
`EveryJobHasRun`, `TerminalStaysFinal`, `DeadAreExhausted`, `AttemptsAreBounded`. That
dead jobs are exhausted needs that a worker's copy of `attempts` is never more than the
row's and that a retry decision is made on it. `AttemptsAreBounded` rests on `Metered`:
the claims made, the attempts still open that may requeue the job (each number
carried by one worker at most) and the claim that a queued row is due never exceed
`MaxAttempts` and the lapsed leases together; a takeover opens one attempt more and is
paid for by the lapse before it. Under `Prompt` (neither "overrun" nor "lag"): `HoldersAreRecorded`,
where the invariant itself is inductive with the type invariant and freshness
of jobs not yet stored, because `LeaseMayEnd` keeps the lease of a live holder
running; `OneHolderPerJob` follows since a row names one worker;
`FaultsBuyClaims` (a job is claimed at most `MaxAttempts` times and once more for each
fault) adds that a holder's copy of `attempts` is current and that a
job waiting for a claim has one to spare (`SnapshotIsCurrent`, `SpareAttempt`);
`QueueImplementsLifecycle` maps every statement to a step of `JobLifecycle` or a
stutter. `RecordsSettle` needs that whoever is about to write "queued" or "failed" over
a run record is alone with the job (`NoteIsFresh`: a requeued job still waits out its
back-off, a dead one stays dead) and that a job which succeeded has its record
written already, one that died at the latest by its worker's next statement
(`Reported`). `SequentialSubmitsDedupe` assumes a single request thread, which
`JobQueue_double_submit` shows to be needed.

**Kernel** (`AgentRunProofs`). `RunsAreGoverned` strengthens the property by
`GovInv` (nothing is held while the loop runs); `GateEndsToolUse` by `GateInv`
(after a denied or held call the run is past its loop); `SuccessesAreClean` by
`CleanInv` (a flag that spoils success is up only with another status, per
program counter); `DegradedRunsFail` by `DegradedInv` (an unavailable source leaves
its flag, and past `Seal` the flag a failure). `RiskIsReviewed` counts: each quarantined observation raised a flag of its own
(`RiskInv`), and a score below 60 leaves room for one flag at most, with high risk
for none (`ScoreParts`). `RulesGoInOrder` is by `RulesInv`: the rules engine has called
what comes before some place in the allow-list, the call under way is the first that
is missing, and turns count the tools called, so that with steps enough a success
has called them all; that `SelectSeq` finds the first one missing is a lemma.

**Review** (`ReviewProofs`). `OnlyApprovedFires` holds for any number of
overlapping reviewers, and so does `ApprovalsFire` without a model: `HeldInv` says
that what a reviewer approved is the tool the record held, and the contract of the
rules engine that it is then called, if the allow-list just read has it and the process
knows it. `RejectionsStand` assumes one reviewer: its
`FreshInv` says that whoever decides still decides on the current record.
`Review_race` shows that it fails with two. `DeniedIsUnfired` and `FiredOnce` assume
also one side-effecting tool, for the reason given in section 4: `OnceInv` says that
a tool that was denied, or is held by a record nobody is resuming, has not fired, and
that a record that holds denies nothing.

**Supervisor** (`SupervisorProofs`). `TypeCorrect` includes that `stack` is never
deeper than the names: `Typed` adds that the names on it differ. `HaltsStopTheRun`
(`HaltInv`: after a review or a block the run is past its loop), `AgentsRunOnce`
(`Apart`: what ran, what is queued and what is drafted are disjoint and without
repetition), `SynthesisRunsLast` (`SynthInv`: a synthesis agent is last in queue
and draft, and nothing is left once it ran), `StrictRunsTheTeam` (`StrictInv`: who
has not run is queued, drafted, or still to be visited by the root call).
`DependenciesRunFirst` is about the depth-first search: a team without a cycle has
a rank that falls along dependencies (`Strata`); the calls of `visit` on the stack go
down in every such rank (`Descends`), so `visiting` never cuts a dependency off; each
dependency of an agent being visited is still to be visited, ordered, or the call
above it (`Followed`); hence what is queued and what ran is closed under
dependencies (`QueueIsClosed`, `RanIsClosed`). `BoardStaysCurrent` is by `BoardInv`: a
key holds only outputs of those that wrote it, each at most once, and with two
writers the de-duplication can only skip a value that is already the latest.

**Stream** (`StreamRunProofs`). `StreamsImplementRuns` maps each step of a stream to
a step of `AgentRun` or a stutter. Its `StreamInv` says that while the loop runs
nothing is stopped, said or decided, and that a sweep ends without success only
where it was stopped: this is what tells which of the kernel's exits a step is.
`StreamsAreGoverned` then takes the theorems of `AgentRunProofs` over, through the
instance of that module under the same mapping.

**Registry** (`RegistryProofs`). `RegInv` joins the types, the property, `RowsApproved`
(a row that says approved is of a server somebody approved) and the
soundness of every call under way, whose `Session` says what a discovery has taken
of the listing in each phase.
`DiscoveriesAreWhole` follows from the session's part. `SecretsAreReadable` rests on
`OneKey`: unless a stored key was replaced, all processes that have a key have the
stored one. `LatestExists`, for `load_persisted`, is a fact on naturals; the
tenants are finitely many. `RestartsKeepTools` assumes that no server lists two tools
of one name (`UniqueNames`; of two the registry keeps one): `OwedInv` says that what
is owed for a row is in it, approved (`Kept`), and that a registration which met no
other has the row's own content in hand when it binds (`Tracked`).

**Assembly** (`AssemblyProofs`). `PrivilegeIsLeast`, `FloorsAlwaysHold`, `ScopesMatch`
and most of `TypesOk` are parts of one invariant: `TemplatesOk` (templates are only
added, so a spec's template stays what it was), `StoredOk` (every stored spec is
`Sound` under its mark, which tells approvals from those a copy inherited) and `StackOk` (so is each frame of the provisioning stack, and
only the request of the operator, at the bottom, carries approvals). `Bounded` adds
that the stack stays within the recursion limit.

`ChainsAreBottomUp` is about the resolver for any dependencies of any names, cycles
included. First, that `Walk` is a function at all: `WalkIsLoop` shows that a call
visits names outside its stack only, so calls are well-founded by the names not on
the stack and then by the names left in the loop. That is induction, written as the
choice of a smallest counterexample (`WFMin` over the strict subset ordering of finite
sets and over the naturals), for the library's induction rules take an operator as
a parameter, which the provers cannot instantiate. The same scheme
gives what a walk returns: everything missing that can be reached, once, each name
after those it depends on, or the cycle it met (`ChainSortsBottomUp`).

`NothingRunsAway` and `PrerequisitesAreBuilt` share `NestInv`, over the stack of nested
calls. A nested request carries the name of its template and belongs to the
operator's tenant (`Nested`); what the store offers stays offered when a prerequisite
is saved, though a save may replace an agent (`Dependable`); each hard prerequisite of
a frame is offered, to come, what the frame above creates, or gone (`AllCovered`), which
gives `PrerequisitesAreBuilt` when nothing is to come. With the rules engine, if nothing
was taken away, each frame has a `Fence`: a set of names that contains whatever the
frames above it create or have left to do, that is closed under missing
dependencies, and that does not contain the frame's own template. When
a creation starts to provision, what the resolver found missing is its fence, which is
why this rests on `ChainsAreBottomUp`, and lies within the fences of the frames below;
a save only shrinks what is missing, so fences last. Two
frames with one template would put it inside its own fence.

**Service** (`ServiceProofs`). `SignInMoves`, `DeploymentMoves` and `ChatMoves` say
once what a step does to the request of its thread; each theorem has its
invariant over them. `RevokedAreDead`: what an undeploy is to revoke was issued.
`AccountsAreKept`: unless sign-ups overlapped, one thread signs up a name, and
past the lookup it saw no account (`KeptInv`). `TheLockHolds`: with the lock open,
wrong passwords are counted or about to be; with it shut, those found wrong and
those still being verified stay within the bound (`LockInv`, over the numbers of
logins at a step). `HistoryIsWhole`: turns to come are in no history and no two
requests share one (`HistoryInv`); it assumes that `MaxTurns` is even, as 24 is, for
an odd limit would cut a question from its answer. `VectorsAreNotMixed` assumes
`LexicalApart`, that no model has vectors as long as the lexical ones, which
`FINGENT_EMBED_DIM` could break.

**Checked by TLC only.** The three liveness properties, `EveryJobSettles`,
`Terminates` and `ApprovalsFinish`: fairness and ENABLED are beyond this prover. Of
the two runs that must fail, `Review_race` shows that `RejectionsStand` needs its
assumption and `JobQueue_double_submit` the same of `SequentialSubmitsDedupe`.

## 6. Abstractions

* *Queue.* One worker thread per process; audit and logs left out; the run record is
  its status; back-off is any time up to a cap; an UPDATE is atomic, as SQLite
  runs it (the isolation of Postgres is not modelled); a store call that raises does so
  before or after its UPDATE, never half-way; due times are told apart up to `AgeLimit`.
* *Kernel.* Outputs, arguments and wording are data; tools return any outcome; the
  scores of ICP agents and
  the redaction of personal data are left out. The clock is one action,
  `TimeOut`, possible at every step of the budget. In `StreamRun` the tokens of
  an answer are data; a client may leave at every event.
* *Review.* The first run is without pre-approval; of an edit only the allow-list is kept; `fired` counts a tool once per run
  of the kernel, up to `MaxFired`.
* *Supervisor.* Steps the validator drops leave no trace; subtasks, reasons, displayed
  edges, digests and what agents read are data. `by_name` always finds a queued
  agent, as plans only name agents of the team, so the skip at `planner.py:351` does
  not occur. A result is written under `writes[0]`; `granted` says whether the
  member's `memory_write` covers it.
* *Assembly.* What a request says in words is what is read off it: the tools it names,
  whether it sounds risky, whether it asks for review. A tool list is a set. One
  `create_agent` runs at a time, other requests between any two of its steps. The
  four token and step caps are one cap with three values. Names, descriptions,
  model choice, and the layout of the stored record are left out.
* *Resolver.* Messages and the tree it also returns are left out.
* *Registry.* Native tools, which never change, are left out; secrets are one
  reference per tenant; a vault key from the environment is left out (with it no key
  is ever created); what a proxy does when it is called is not modelled.
* *McpClient.* Discovery only: `call_tool` sends one request over the same exchange.
* *Vault.* A ciphertext is the key it was made with.
* *Service.* A password hash is the password; a session is one of the number its user
  has, at most `MaxSessions`, and may expire at any time; roles and tenants are left
  out; authentication is required in the run, as in production (`AuthRequired`). Recall
  takes every comparable memory rather than the best few; the in-process and the
  Pinecone back ends are left out. A chat turn is one call of the kernel with any
  result.

**Not modelled.** The model provider (`llm.py`): HTTP with retries inside one call;
everything the models need of it is that a call returns anything or raises. Tools and
their data services (`tools_native.py`, `realtools.py`): arithmetic and look-ups
behind one interface, of which the kernel sees the outcome. Templates as data,
prompts, tracing (`observability.py`, which only observes), `hashpw.py`, the
frontend, packaging and demos: no state that another part depends on.

## 7. Plan

1. `JobLifecycle`, `JobQueue`, proofs: done.
2. `KernelContract`, `AgentRun`, `Review`, proofs: done. `StreamRun`: done.
3. `Supervisor` with the blackboard, proofs: done.
4. `SpecValidator`, `Resolver`, `Assembly`, proofs: done.
5. `McpClient`, `Vault`, `Registry`, proofs: done.
6. `Accounts`, `Deployments`, `Chat`, `Service`, proofs: done.
7. Proofs of the remaining safety properties (`RestartKeepsTools`, `FiresOnce`,
   `DeniedNeverFired`, `ApprovedHasFired`, `DependenciesFirst`, `BoardIsCurrent`,
   `RulesInOrder`, `RiskyIsReviewed`, `RecordSettles`, and what rests on the
   resolver's recursion): done. Liveness stays with TLC.
8. *Composition*: `Review` on top of `JobQueue`, so that a retry meets a review and a
   cancellation meets a decision; the supervisor's runs under the queue; a stored
   grant that the registry no longer knows, called through its proxy.
