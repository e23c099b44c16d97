# A verification project for Fishyume

Fishyume runs workflows of coding Agents.  A client (CLI, TUI, MCP server, web)
talks to the Go engine `wf-engine`; the engine keeps every Run as a set of JSON
snapshots on disk, drives it with a controller goroutine, starts and observes
Agents through a Backend, and must come back from a crash, a lost lease or a
cancellation without starting an Agent twice, forgetting one, or reporting
something that did not happen.  This directory holds TLA+ models of that
engine, the TLC configurations that check them, and theorems checked by TLAPS.

`PROJECT.json` is the index: which definition models which lines, what each run
checks, the mutants that each property detects, the hazards and the findings.

## 1. Inventory

| Part | Source (`src/wf-engine/internal/`) | State | Operations | Hard behaviour |
|---|---|---|---|---|
| Run service | `run/service.go`, `parallel_launch.go`, `reconcile.go`, `lifecycle.go` | Run, Node and Attempt snapshots; per process: the controllers, a mutex, receipts | start, control loop, launch, observe and apply, pause, resume with an action, recover | Backend calls are made without the mutex; every mutation is several file writes; the heartbeat may end a controller anywhere |
| Cancellation | `run/cancellation.go`, `service.go:1183-1434` | the intent in the Run, the outcome of each target | mark, cancel targets side by side, apply, resolve; a second, older path after a restart | races with launches, results, the caller and the monitor |
| Scheduler, aggregation | `run/scheduler.go`, `aggregation.go`, `workflow/template.go` | none | PlanSchedule, EffectiveConcurrency, Evaluate, aggregateRunState | order of skips, failures and limits |
| Control lease | `store/lease.go`, `lease_guard_*.go`, `process_alive_*.go` | `control.lock`, its flock | acquire, acquire for recovery, heartbeat, release | expiry against a suspended owner, death inside the guarded section |
| Cancellation mailbox | `store/cancel_request.go` | `cancel.request.json`, responses | request, resolve, read response | a request that nobody answers, a caller that gives up |
| Run store | `store/json_store.go`, `paths.go` | snapshot files, the event log and its cache | atomic write, create once, append | crash between snapshot and event |
| Application service | `application/`, `store/application_journal.go` | the journal of starts and actions | StartRun, RunAction, Recover | replay of a pending entry, state version moved on |
| Control plane | `controlplane/` | the owner lock, the endpoint file, client count | claim, publish, serve, idle shutdown | a client that connects while the owner stops |
| RPC | `rpc/` | connections, subscriptions | call, subscribe | order of events and responses |
| Team | `team/`, `store/team_store.go`, `teamcontract/` | the Team snapshot, participants, turns, messages, action intents; per process the controller and the session locks | start, dispatch and observe turns, follow_up, cancel_turn, close, cancel, Recover | the driver is called outside the mutex; every mutation is several files; an action is replayed |
| Handoffs | `team/handoff.go` | artifacts, bindings, intents | create, bind to a Run, replay | a replay against another binding, failed writes |
| Memory catalog | `store/memory_catalog.go`, `application/memory.go`, `run/context_assembly.go` | one file: records, receipts, revision | create, supersede, delete, consume, get, list | lost answers, limits, uses reserved before an Attempt exists |
| Routing | `routing/`, `routingconfig/`, `run/routing.go` | enabled routes, discovery, availability, catalogs by hash, Team routes | discover, probe, update, resolve, reserve, apply to the Team service | probes without the mutex, a catalog in use before it is on disk |
| Context compiler | `contextcompiler/` | none | compile three tiers under byte budgets | division with a remainder, cuts inside a rune |
| Drivers | `driver/`, `backend/`, `sessiondriver/`, `explorationdriver/`, `agent/` | session records with revisions, handles, supervisor files | sessions: ensure, resume, start, observe and interrupt a turn, park, close; one-shot: Start, Observe, Cancel | a handle of an old revision, a call that fails after it took effect |
| Workflow definitions | `workflow/parse.go`, `validate.go`, `model.go` | none | parse, validate | pure |
| Clients | `src/wf/src`, `src/fishyume-web` | request tables | bridge, presentation | I/O |

The parts interact as follows.  A client's call reaches the application service,
which journals it and calls the Run service.  The Run service takes the control
lease of the Run before it starts a controller, and hands the lease to that
controller.  A cancellation is a file in the mailbox: the monitor of the
controller that holds the lease handles it, wherever the request came from, and
a caller that can take the lease handles it itself.  Everything a controller
decides is decided again from the snapshots on disk under the mutex of the Run
service; the Backend is called outside of it.  After a restart the application
service replays pending actions, then the Run service recovers the Runs.

The Team service is a second engine beside the Run service, with its own mutex
and files.  Its controller starts a goroutine per turn, which calls a driver: a
one-shot execution for a panel, a turn of a kept session otherwise.  The session
drivers keep a record per session on disk and refuse a handle whose revision is
not the record's, so Team and driver each hold a part of one state.  A Handoff
freezes messages of a Team and is bound to one Run.  Before a node of a Run is
launched, the Run service resolves a route in the active catalog of the routing
service, reads the Memory records bound to the node, compiles its context and
reserves a use of each record it includes.

What makes the parts correct:

- *lease*: one believer in an unexpired lease; a valid lease of a live process
  is never taken;
- *Run*: an execution that lives is known and not concluded; a completed Run has
  only ended nodes and stays completed; a node that succeeded stays so; a Run at
  rest waits for someone or is completed; cancelled means stopped;
- *scheduler*: a node starts after its dependencies, within the limit;
- *journal, actions*: an action takes effect once, also across a crash;
- *mailbox*: a request is answered once, by the outcome that happened;
- *Team*: a turn is launched once and keeps its outcome; a closed Team is over and
  stays so; an answered action is done;
- *session*: the agent gets a turn once and works on one at a time; the Team says of
  a turn what the agent did; every turn ends;
- *Handoff*: what was frozen or bound stays as its caller was told;
- *Memory*: no record is used beyond its limit; answers agree; deleted is gone; the
  file that is written can be read;
- *routing*: a recorded catalog can be resolved; a budget holds over Attempts; a
  route changes only where that is safe; a usable route is found;
- *compiler*: a fair division that its own validation accepts.

## 2. Modules

| Module | Models | Used by |
|---|---|---|
| `ControlLease` | the lease file, its guard, handles, clock, crashes, with its theorems | `MCControlLease` |
| `Schedule` | scheduling, conditions and aggregation as operators | `WorkflowRun` |
| `WorkflowRun` | one Run in one engine process | `MCWorkflowRun`, `WorkflowInv` |
| `WorkflowInv` | its inductive invariants | `WorkflowRun_proofs` |
| `WorkflowRun_proofs` | theorems about it | |
| `ExactlyOnce` | what the application service promises for an action | `ActionJournal` |
| `ActionJournal` | the way of an action from its caller to the Run and back | `ActionJournal_proofs` |
| `ActionJournal_proofs` | theorems about it, the refinement of `ExactlyOnce` among them | |
| `Team` | the files of a Team, its threads, preparation, the end of a turn, crash and recovery | `TeamPanel`, `TeamSession` |
| `TeamPanel`, `TeamSession` | the two modes: one-shot turns; kept sessions with the actions of the host | `TeamLifecycle` |
| `TeamLifecycle` | the composition of the three, and the properties | `MCTeam`, `TeamLifecycle_proofs` |
| `TeamLifecycle_proofs` | theorems about it | |
| `AgentSession` | the record of a session driver, the agent, and the Team's side of each call | `CodexSession`, `HarnessSession` |
| `CodexSession`, `HarnessSession` | the outcomes of a call of the two drivers | `SessionProtocol` |
| `SessionProtocol` | one participant's session over either driver, and the properties | `SessionProtocol_proofs` |
| `SessionProtocol_proofs` | theorems about it | |
| `HandoffRegistry` | what a Team promises for its Handoffs | `TeamHandoff` |
| `TeamHandoff` | Handoffs write by write | `TeamHandoff_proofs` |
| `TeamHandoff_proofs` | theorems about it, the refinement of `HandoffRegistry` among them | |
| `AttentionBudget` | the allocation of a context, as operators | `ContextCompiler`, `ContextAssembly` |
| `ContextCompiler` | one compilation | `MCContext` |
| `MemoryCatalog` | the Memory ledger | `ContextAssembly` |
| `ContextAssembly` | the preparation of the contexts of Attempts over the ledger | `MCContext`, `ContextAssembly_proofs` |
| `ContextAssembly_proofs` | theorems about both | |
| `Routing` | catalogs, the resolver, fallback and cost, as operators | `RoutingConfig` |
| `RoutingConfig` | the routing service | `TeamRoutes` |
| `TeamRoutes` | its Team half, and the application to the Team service | `RoutedAttempts` |
| `RoutedAttempts` | the routing of the Attempts of a node over both | `MCRouting`, `RoutedAttempts_proofs` |
| `RoutedAttempts_proofs` | theorems about all four | |
| `MC...` | constants for TLC, where a configuration alone cannot give them | the configurations |

### ControlLease

An `Owner` is one lease handle, which lives in a process (`PidOf`).  `lock` is the
file `control.lock`: absent, created but still empty, or a record.  `acquire` reads the
clock, waits for the flock, decides, removes the old file and creates the new
one: `AcquireBegin`, `AcquireTake` or `AcquireRefused`, `CreateOpen`,
`CreateWrite` or `CreateFails`.  Because the clock is read before the guard is
obtained, the decision may be taken with an old time; the model keeps that
(`stamp`).  `Heartbeat` reads once without the guard (`HeartbeatCheck`) and again
with it (`HeartbeatWrite`).  `Release` removes the lock only if it names the
handle.  `Crash(p)` ends the handles of a process, frees its flock and leaves the
file.  A recovery (`AcquireRecovery`) may replace an unexpired record of a dead
process.  PIDs are not reused in the model; a reused PID only delays a recovery
until the record expires.

### Schedule

The workflow is given by constants: nodes, the Agents among them, a topological
order, dependencies and conditions.  `PlanSchedule`, `Evaluate`,
`aggregateRunState` and their helpers are translated as operators over the Node
snapshots.  A condition is one level of `all`, `any` or `not` over comparisons
with a result; deeper nesting adds no case to the scheduler.  Results are the
values that conditions and actions tell apart.  The empty string of a snapshot's
conclusion or reason is `"none"`.

### WorkflowRun

Durable state: `run`, `node`, `attempt`, the cancellation request `req`, the
action `intent`.  The executions at the Backend (`exec`) live outside of the
engine.  Lost by a crash: the controller `ctl`, its observations `obs` and
launches `lau`, the cancellation handler `can`, a waiting caller `ask`, an action
`act`, a pending heartbeat recovery `hbrec`, and `todo`.

*Mutex and writes.*  A mutation under `s.mu` is a sequence of file writes.  The
action that begins it computes the sequence from the snapshots, as the code does
after `loadRun`, and puts it into `todo`; `Write` performs one write per step;
every other mutation needs `todo = <<>>`.  So a crash can hit between any two
writes, while other threads see what the mutex lets them see.  Single-write
mutations are one step.

*Control loop.*  `ControlTop`, the `Observe...` actions (one per Attempt, in any order,
without the mutex), `ReconcileApply` (in node order), `ReconcileEnd`,
`ScheduleBatch`, `LaunchBegin`/`LaunchStart`/`LaunchPersist` per launch,
`LaunchSettle`, `PauseOnError`, `ControllerExit`.  Each begins with the check of
`controllerMutation` (`Allowed`) exactly where the code makes it; the launch's
persistence of a handle does not, as in the code.

*Cancellation.*  `CancelAsk`, `CancelReturns`, `CancelTakesLease`, `MonitorFinds`, then `CancelMark`,
`CancelTarget`, `CancelApply`, `CancelResolve`; `RecoverMark` to `RecoverFinal` are
`handleCancellationRequest`, which only a recovered controller runs.

*Callers.*  Every request comes through `RunAction` of the application service,
whose `mutationMu` admits one at a time and holds it until the request has
returned; every request carries the state version it was made for.  `Requests`
names the kinds of requests a configuration allows.  The Run service's resume
without an action has no caller.

*Actions.*  `Decide`, `DecideAgain`, `Retry`, `Answer` write the plan as `intent`, apply
it, write the Run with the receipt (`intent.receipt`) and remove the intent;
`ActionStartsController` starts the controller.

*Restart.*  `proc` goes from down through replay to up.  In replay the
application service repeats its pending requests: one whose intent is durable and
whose receipt is not is applied from the plan (`ReplayAction`); one that was only
journalled is an ordinary request made now; one with a receipt is answered from
it and changes nothing.  `Recover` then starts a controller for a Run that
needs one.  A replay that fails ends the process, which is another restart.

*Faults.*  The environment's faults are counted (`MaxFaults`) and named
(`Faults`): a crash at any point, a failed heartbeat, a failed observation, an
Agent that asks in its terminal, a lost execution, a start that fails before or
after the execution exists, a cancellation that the Backend does not confirm, and a
caller that gives up.

Abstractions, each of which leaves the control as it is:

- texts, timestamps, diagnostics, `ActiveNodeID` and the event log are left out;
  the state version appears as whether the request's version has become stale;
- `invalid_result` is merged with `completion_missing`, which it equals in every
  condition of the code except the text;
- the two phases of an action intent and its count of applied writes are merged
  into the plan: writing a node again is what the replay does when it finds the
  planned value; every action has an id;
- an execution's end is decided when it is next observed or cancelled;
- disk errors other than "the Attempt exists" are not injected; they lead to
  `PauseOnError` like that one;
- another process that takes over the lease is the subject of `ControlLease`; in
  `WorkflowRun` the lease is free or held within the process;
- only the control plane recovers; the stdio mode recovers nothing and is not
  modelled;
- the Run begins as `startNormalized` leaves it;
- `service.go:1686-1910` and `1987-2076` (`scheduleOne`, `launchAgent`,
  `reconcileAttempt` and what they alone use) have no caller and are not modelled.

### ExactlyOnce and ActionJournal

`ExactlyOnce` has an effect count and a final answer for every actionId: at most
one effect, at most one answer, no effect after the answer, and an answer that says
whether there was an effect.  The answers `not_found` and `bad_payload` are exempt from
the last (section 6).

`ActionJournal` is the protocol behind it.  Durable: the application `journal`,
the action `intent`s with the node writes they cover (`wrote`), the Run (`version`,
`receipts`, `phase`), and the mailbox (`mail`, `reply`).  `call` is the one call that
holds `mutationMu`; `busy` says that a controller has the lease; `handler` is the one
handler of a cancellation request.  `done` is a history variable: how often the Run
recorded an action.

*A call.*  `RunAction` looks at the record, the receipt and the version;
`BeginApplicationJournal` writes the record; the call goes through Resume (`Resume`,
`ApplyBegins`, `ApplyNode`, `finalizeAction`, `RemoveActionIntent`) or through the
cancellation (`CancelBegins`, then the loop `CancelReads`/`CancelPolls` until there is a
response or the lease is free); a final error goes through `AbortActionIntent`; then
`MarkApplicationJournalMutated` and `CommitApplicationJournal`.  An error that is not final
(`IoError`, `ResumeConflict`) leaves the record pending; a failure of an intent file
(`IntentFileFails`) is final, as the code's classification has it.

*Beside it.*  The controller writes and ends; its monitor, or the caller once it has
the lease, handles the request (`CancelMark`, `CancelEnds`, `ResolveCancellation`);
`Crash` hits anywhere; `Restart` replays the pending records in any order, where an
internal error ends the process, and `Recover` starts a controller.

Abstractions:

- what a test of node states decides is a free choice; `WorkflowRun` has the details;
- `|Id|` is at most `maxActionReceipts` (256), so that no receipt is evicted;
- the several Run writes by which the outcomes of a cancellation are applied are one;
- a controller that is recovered after a failed heartbeat counts as the same one;
- the removal of an old response and the write of a new request are one step;
- the text of a failed cancellation is taken to hold none of the words by which
  `mapActionError` tells errors apart;
- the control plane passes a context that never ends, so a caller never gives up
  here (`WorkflowRun` has that case, for the Run service's own interface); an I/O
  failure while a caller polls is left out;
- the branch of `applyActionIntent` for a node changed by someone else is left out.
  The changes it guards against need a controller, and `HalfInv` says that none
  runs at the version of an action that can still go on.

### Team, TeamPanel, TeamSession, TeamLifecycle

`disk` is everything a Team keeps in files, `ext` the drivers and what they run,
`pc` the goroutine of each turn, `act` the controller and the calls of the host,
`lock` the session locks of the participants.  A mutation under the mutex is
built from the writes of the store (`WriteTeamTurn`, `WriteTeamSnapshot`, ...) and given
as the disks it goes through and the one it comes to (`Writes`); `Commit` reaches that
one or crashes at one of the others.  A call of a driver is a step of its own, between the mutation
that announces it and the one that stores its result.

*Panel* (`TeamPanel`): `dispatchTurn`, `Launch`, `Launched` (with `StopLate` for an
execution that comes back to a cancelled turn), `observeTurn`; a cancellation marks
the turns (`PanelCancel`), calls the drivers one by one and finishes.

*Session* (`TeamSession`): `dispatchSessionTurn`, `ensureParticipantSession`,
`SessionReady`, `StartTurn`, `TurnStarted`, `observeSessionTurn`,
`parkParticipantSession`.  An action of the host stores its intent
(`sessionAction`), then `commitFollowUp`, `cancelExactSessionTurn` and
`ConfirmCancelTurn`, `closeTeamSession`, or `cancelTeamSession` with its walk over the
turns; `replayAction` is the same request again, answered from what is on disk.
`finalizeGracefulClose` closes the sessions.  `Expire` is the end of the lifetime.

Abstractions: messages have no text; every turn costs one unit; the event log, which
the modelled operations read only to avoid repeating an event, is left out; the session
driver is abstract (`SessionProtocol` has it in detail); an execution handle that names
another driver (`team/service.go:582-593`) does not occur, because the exploration
drivers of the repository put their own name into the handles they return and validate
them (`codexprocess/exploration.go`, `harnesssession/exploration.go`); a model that the
catalog no longer lists fails a follow-up for the participants in `Unlisted`, none in the
run (section 6); the host has one action open
at a time and does not end a Team before its turns are prepared (`HostIsSerial`,
`EarlyCancel`; section 6 says what happens otherwise).

### AgentSession, CodexSession, HarnessSession, SessionProtocol

`rec` is the driver's record with its revision; `world` the agent: each turn's
execution and whether the session still exists there; `client` the connection;
`team` what the Team has stored, its handle's revision among it; `call` the call
in progress.  A call of a driver is a set of possible *outcomes*: the records it writes
in turn, what it answers, whether it used up a fault.  `Proceed` performs a call write
by write, so that a crash falls between any two, and between the driver's last and
the Team's first.  The drivers differ in how they learn the fate of a turn: Codex reads
the thread of the app-server again (`reconcileTurn`), the harness asks the supervised
process.  The agent ends turns by itself (`AgentEnds`) or loses the session
(`SessionGoes`).

Abstractions: texts, permissions and models of a turn; the transport of the app-server
appears as a call that fails before or after it took effect, and a launch of the harness
as one that leaves its record dispatching or failed; a process that does not
react to a kill is not injected.

### HandoffRegistry and TeamHandoff

`HandoffRegistry` freezes an artifact once, binds it once, and tells callers only what
is so.  `TeamHandoff` has the intents, artifacts, bindings and events on disk and one
operation in progress (`call`), which runs under the Team service's mutex: intent,
artifact or binding, event, answer.  Each write may fail (`WriteFails`) and the engine
may crash before it (`Restart`); a start replays every unanswered intent before it
serves (`Recovered`), and a replay that is refused ends the start (`phase =
"refused"`).  The refinement maps the artifact and binding files to the registry and
the answered intents to what callers were told.  The Team's messages move on by
themselves (`TeamMoves`).

### MemoryCatalog, ContextAssembly

An operation on the ledger runs under a file lock from the read to the replacement of
the file, so it is one step with a nondeterministic end: answered, answered with an
error although it was written, or dead before or after the replacement, with or
without a temporary file left over (`temps`).  `mutateMemory` has the replay by
receipt, the conflict of a reused mutation, the limits and the validation of the
proposal.  `ListMemory` is one page; its cursor holds the revision.

`ContextAssembly` prepares the Attempts of nodes: `ReadMemory` (one record per step),
`Compile`, `Reserve` (a consume mutation whose identity holds the hash of the
context), `WriteAttempt`; `Die` loses the preparation at any of them.

Abstractions: content is its length in bytes; a record's identity is a number in the
order of the hashes; the clock does not go back (section 6).

### AttentionBudget, ContextCompiler

A content is the sequence of the byte widths of its runes.  `balancedAlloc` and its
rounds, `validTail`, the required and the optional tier are translated as operators.
An input is what the source registry resolves (`Resolved`) with its limits on
components, omissions and Memory records.  `CompileContextV2` adds the engine's two
contracts to the required tier, allocates the tiers, and validates the result with
`ValidateContextEnvelopeV2`, whose counts and sums may refuse it.  `FairShare`
compares the allocation with a definition of max-min fairness that mentions no rounds,
and says which inputs may be refused for which reason.

Abstractions: identities, hashes and provenance of components are well formed.

### Routing, RoutingConfig, TeamRoutes, RoutedAttempts

A catalog is the set of its routes, which stands for its hash too.  `config`,
`discovered` and `available` are the service's three sources, `registry` the active
catalog and the catalogs known by hash, `disk` their files, `mu` the mutex with the
write that is due under it, `host` the request in progress.  `works` is the upstream,
unknown to the engine until it probes.  The routes an accepted update enabled are
kept in `accepted`, a history variable.

A launch goes through `call[n]`: resolve, gate (known, probed or refused), pin the
route of an accepted action, gate again, reserve.  A retry or an answer does the
same first as a preview.  A failed probe tries the next resolution up to
`ProbeTries` times.

`TeamRoutes` has the Team configuration, the installed CLIs and their discovery, and
the application of a catalog after the mutex was released.  A refresh whose CLIs cannot
be written fails and keeps them in memory (`unwritten`).  A behaviour of the
composition uses the workflow half or the Team half (`focus`): they share the mutex and
the crash and no other state, which the interleaving of both would only multiply.

Abstractions: capabilities and prices of a route are constants; contracts are valid.

## 3. Runs

| Run | Question | States |
|---|---|---|
| `lease` | three handles in two processes: exclusion and justified takeovers | 85,172 |
| `parallel` | two Agents side by side, two Attempts each, cancellations, actions, one fault of a Backend kind | 1,486,075 |
| `recovery` | cancellations, two faults among crash, heartbeat, unconfirmed cancel, a caller that gives up | 725,932 |
| `review` | four nodes with an approval and a condition, one slot, two faults among crash, heartbeat, lost execution | 428,678 |
| `liveness` | under fairness controllers rest and requests are answered | 19,402 |
| `journal` | two actions, resumes or cancellations, crashes and I/O errors at every write: once, truthfully answered, nothing half done forgotten | 413,672 |
| `team` | two participants in both modes, one action of each kind, crashes at any write, failing launches, lost executions, the end of the lifetime | 614,261 |
| `session` | two turns of a session over either driver, a crash, a failing call, a cancellation and a close | 64,028 |
| `handoff` | two Handoffs, two bindings that compete, failing writes, crashes, replays | 58,799 |
| `context` | the ledger with two Attempts that share records; 3,487 compilations | 368,522 |
| `routing` | a node launched, retried and answered beside the host's requests; Team routes beside CLIs that come and go | 1,465,317 |
| `false_cancel` | a disagreement of the code with its documents, see section 6 | |

*Bounds.*  Two Agents are enough for every race between Attempts: the code treats
Attempts pairwise (a batch, a set of targets, the first active node).  Two
Attempts are the smallest number with a retry.  Two faults allow a crash during
the recovery from another.  The lease runs with a TTL of 2 and a clock up to 5,
which gives a handle time to expire, be taken over and expire again.  `journal`
has two actionIds, the smallest number with which one action supersedes another,
three versions to expect and two node writes per action, so that a crash can leave an
action half written; crashes, errors and repeated requests are not bounded.

`team`: two participants give every race between turns, since the code looks at one
turn, or at whether all are over.  A session has the initial turns and those of one
follow-up.  `MaxDisturbances` (2) counts crashes, actions of the host and the end of
the lifetime together, so each pair of them occurs in every order; one participant
has a driver that may fail, the other none.  `session`: two turns, the smallest number
with a stale handle of another turn; one crash and one failing call, which may come
together.  `handoff`: two Handoffs and two actions that may bind the same one, Runs
at home and not, room for three receipts of four; two crashes, so that a replay is
itself interrupted; one failing write.  `context`: room for three records and two
receipts, so that both limits are reached; records with and without a limit of uses
and an expiry; the compilations are all inputs of up to three important sources and
three records over small contents and budgets, with limits of six components and three
omissions, so that inputs lie below, at and above each of them and are refused for each
reason (the code has 128 components, 256 omissions and 32 records; with these the
omissions cannot exceed their limit).  `routing`: three product routes,
three events of the host or the environment, two Attempts, a failing write of the
configuration, of the availability or of the discovered CLIs; symmetry over the mutation identities, of which
no operator chooses one.

*Deadlock* is not checked: a Run at rest that waits for its user, a Team that is
closed, or a model whose bounds are used up, may stop.  Whether it rests in the right place is what
`ControlledWhileRunning` says.

*Fairness* (`FairSpec`).  Goroutines of a live process run (`WF`), a waiter of
Go's mutex is not starved (`SF` for the steps that need the mutex), and an
execution that is polled again and again ends at some time (`SF` of
`ObserveEnd`); without the last assumption an Agent that never ends keeps its
controller for ever, as it should.  No fairness is assumed of users, faults or
restarts.  In `session` the goroutines of the Team dispatch, observe and finish their
calls (`WF`), and the agent ends every turn it works on, for the same reason as above.

## 4. Properties

- `LeaseExclusion`, `TakeoverJustified`: the lease.
- `ConcludedIsOver`: an execution that lives belongs to an Attempt past
  `prepared` and without a definite conclusion.  It is what allows a cancellation to
  count a prepared Attempt as stopped while its launch is on the way.
- `RunEndsKnown`: a completed Run has only ended nodes, at every write.
- `SucceededIsFinal`, `CompletedIsFinal`: no later writer overwrites these.
  `CompletedIsFinal` holds without crashes and fails with one (section 6).
- `ControlledWhileRunning`: a Run at rest waits or is completed.  It holds through
  crashes, failed heartbeats and actions (`review`); a refused cancellation breaks
  it (section 6).
- `LimitRespected`, `StartsAfterDeps`: the scheduler's promises through retries,
  answers and restarts.
- `ControllerRests`, `CancelIsAnswered`: liveness.
- `Once`: `ActionJournal` implements `ExactlyOnce`, with the answer read from the
  journal and the effect from the Run's writes.
- `HalfDoneIsSuperseded`: an action that wrote nodes and was answered without being
  applied still has its intent, and another action on the same version came before it
  (`bad_payload` aside).
- `LaunchedOnce`, `TurnIsFinal`, `OutcomeIsBacked`: a turn of a Team is handed to its
  driver once, keeps its outcome, and the snapshot shows only outcomes that a stored
  turn and message have.
- `ClosedIsOver`, `ClosingIsKept`, `AnsweredIsDone`: a closed Team has no open turn
  and no running execution it did not own up to; nothing but the end of a cancel_turn
  reopens it (section 6); an answered action is on disk.
- `StartedOnce`, `QuietSession`, `OutcomeIsTrue`, `EveryTurnEnds`: through stale
  handles, failing calls and a crash the agent gets a turn once and works on one at a
  time, the Team's word on a turn is what the agent did, and without a crash every turn
  comes to an end.
- `AnsweredBindingHolds`, `ArtifactsHold`, `CrashesRecover`, `ImplementsRegistry`: what
  callers were told of a Handoff stays; a start after crashes alone leaves no
  intent behind; the files implement the registry.
- `UsesArePaid`, `NeverCorrupt`, `AnswersAgree`, `ErasedEverywhere`, `ListsWhole`: the
  ledger.  The answers to one request agree even after its receipt was dropped, because
  the record it made or the tombstone it left is in its way; two requests under one
  identity are told apart only until the first receipt is dropped.
- `FairShare`: the compiler, against its reference definition: a refusal for a budget
  means that the required tier does not fit, a refusal for a count that the contracts or
  the omissions exceed a limit, and anything else is divided fairly.
- `HistoryResolvable`, `BudgetKept`, `RouteChangesSafely`, `UsableRouteFound`,
  `AcceptedIsKept`, `TeamCatalogInStep`: routing.  `UsableRouteFound` asks that nobody
  interferes with the call, since a disturbed one may be refused; `TeamCatalogInStep`
  excepts the time after a discovery that could not be written (section 6).

Each module also has its type invariant (`TypeOK`), which the proofs of the modules that
have proofs establish.

## 5. Proofs

`ControlLease` proves, for every set of handles and processes, every
assignment of handles to processes, every positive TTL and every clock bound,
`LeaseTypes`, `LeaseInvariant`, `LeaseIsExclusive` and `TakeoverIsJustified`.  The assumptions are
those of `LeaseAssumption`.

`LeaseExclusion` is not inductive: that two handles do not both believe says
nothing about what the lock names.  The strengthening `LeaseInv` adds that the guard
belongs to the handle that creates the file, that no record exists meanwhile,
that an acquire's time is never ahead of the clock, that dead processes have no
handles, and (`NamedOrExpired`) that a handle in use is named by the lock with
its own expiry or has expired.  The interesting step is `AcquireTake`: the record
it removes was either expired at a time not after now, or names a dead process,
which has no handle in use.

`ActionJournal_proofs` proves, for every finite set of at most 256 actionIds, every
bound on the version and every positive number of node writes, `JournalInvariant`,
`TypeCorrect`, `HalfDoneCorrect` and `OnceCorrect`, the refinement of `ExactlyOnce`.
The assumptions are `JournalAssumption`, `NoEntryAssumption` and
`NoRequestAssumption`, the last two of which say that the model values are none of
the records.

The refinement needs three facts at the step that records an action: it was not
recorded before, it has no answer yet, and nobody records it at the same time.  None is
local.  `Ledger` ties the records, the receipts and the effects together.
`CallInv` says what the call with `mutationMu` knows at each of its steps, such as that
the version it checked still holds when it finalizes, because there is no controller.
`MailInv` is the subtle part: a request file may survive its caller by a crash
or a failed write, and a monitor may then find it.  A request that can still be
marked has a record without an answer, and no controller runs unless its caller waits;
any other request is `Settled`: the version has gone past it, or the Run is
already cancelling or completed.  `HalfInv` does the same for intents, and gives
`HalfDoneIsSuperseded`.

`TeamHandoff_proofs` proves, for any finite sets of Handoffs and actions, any Runs,
contents and messages and any bounds, `HandoffInvariant`, `HandoffTypeCorrect`,
`BindingCorrect`, `ArtifactsCorrect` and `HandoffRefinement`.  The assumptions are those
of `HandoffAssumption`, and `NothingAssumption`, by which `Nothing` is none of the
records.

An answered binding is not inductive by itself: between the write of the binding and
the answer in the intent lie a write that may fail, a crash, and a replay by
which another intent may come first.  `HInv` is `TypeOK` with `SourcesInv` (an
artifact on disk is the one of its intent and quotes retained messages, an answered
intent has its artifact, and so has a binding), `BindsInv` (an intent to bind has the
artifact; an answered one has the binding on disk) and `CallInv` (what the operation under the mutex has already
written at each of its steps).  The refinement follows step by step: the write of a
file is `Freeze` or `Bind`, the answer in an intent is `TellFrozen` or `TellBound`, and
every other step changes nothing of the registry.

`CrashesAreRecovered` needs more: an intent left behind must not meet another binding
before it is replayed.  As long as no write failed (`CrashInv`), at most one intent to
bind is unanswered, the Handoff has its binding or none, and an engine that serves is at
work on every unanswered intent, so that nothing new is accepted beside one.  With a
failed write the second part is lost, which is the counterexample of `MCHandoffStart`.

`ContextAssembly_proofs` proves, for any requests, limits, Attempts, records bound to
them and crashes, `ContextInvariant`, `AnswersStayTheSame`, `DeletionErases`,
`ListingIsWhole`, `CatalogStaysValid` and `EveryUseIsPaid`.  `MemoryAssumption` says what
a request is and that at least one receipt is kept.  `ContextInv` has three parts.
`MemoryInv` relates the file with everything that was told of it: the records a request
made or ended are there (`Settled`), a receipt and an answer of one request are the same,
no receipt is lost before the limit, and the pages of a listing so far hold the matching
records up to the last one.  A valid proposal is the step that needs the records and the receipts
together (`GoodChange`), and it is where `NeverCorrupt` comes from.  `PaymentsOK` and
`ContextsOK` follow a use from the reservation to the Attempt: whoever has a context has
paid for it, and the payers of a record are counted by its uses.  They are
needed because the reservation and the Attempt are different files, and a preparation
that dies between them is repeated.

`SessionProtocol_proofs` proves, for any turns, either driver, any failing calls and
crashes, `SessionInvariant`, `TurnsStartOnce`, `SessionIsQuiet` and `OutcomesAreTrue`, from
`SessionAssumption`.  The three properties speak of the agent, and the invariant ties
it to what three places believe of it: the driver's record (`Sound`: it tells the truth of its turn
and covers every turn that runs), the Team's turns and handles (`TurnsOK`,
`HandlesOK`), and the call in progress with the records it has still to write
(`CallOK`).  One state is not sound: the harness driver takes a launch that ended with an
error for failed although the turn may run.  The invariant admits it as `Abandoned`:
nobody then holds a handle of the record's revision, so no call acts upon the record
again, and the Team keeps the turn as indeterminate.  The proof also shows that the branch
of the harness driver's StartTurn that finds its own turn running is never taken in
this composition, because the Team's handle is stale by then.

`RoutedAttempts_proofs` proves, for any Nodes, requirements, reports, updates, probes,
failing writes and crashes, `RoutingInvariant`, `BudgetIsKept`, `RoutesChangeSafely`,
`AcceptedUpdatesKept`, `TeamCatalogFollows` and `HistoryStaysResolvable`, from
`RoutingAssumption` and `AttemptAssumption`.  `ConfigInv` says what is in memory and not on
disk at each step under the mutex: an update that is being applied (`Updating`), a
catalog that is active and not yet written (`Unsaved`).  `TeamInv` says the same of the
Team routes and of the catalog that is still to be applied.  `NodesInv` follows a decision
from its resolution to the Attempt: the gate waits for the mutex, so the
catalog of a decision that passed it is on disk; a decision on a route that an action
pinned is that of the latest Attempt or the next of its chain.  The cost of a node's
Attempts is a sum over a sequence; that it stays within the budget is proved for every
length by a least counterexample, since the induction theorems of the library are out
of the provers' reach.  `HistoryStaysResolvable` assumes that the write of a
catalog does not fail: the code makes a catalog active before it is on disk, and an
Attempt launched then could not be resolved after a restart (section 6).

`TeamLifecycle_proofs` proves, for any finite sets of participants and actions of the
host, any grant, limits, failing drivers, number of crashes, and for a host that is
serial or not, `TeamInvariant` and `TurnsAreLaunchedOnce`; and `OutcomesAreBacked` and
`TurnsAreFinal` under two hypotheses.  The assumptions are those of
`ConstantsAssumption`.  A mutation is a set of disks of which a crash shows any, so the
proof first says of every mutation what all of its disks have in common: `Sane` holds
between the disk before and each of them, and `Ends` describes the mutations that end one
turn (its own file, the participant's, the snapshot, in this order).  Each action is then
one lemma with the conclusion `StepOK`.

`LaunchedOnce` needs to know where a launch can come from.  `LaunchOK` says of a panel
that a turn whose goroutine is at `launch`, whose file is `prepared`, or which the
snapshot does not name yet, has no execution; it is kept because no file of a turn goes
back to `prepared` (`Advances`) and no snapshot forgets a turn (`Onward`).  In a session
the driver itself reconciles a turn it already knows.  `OutcomeInv` adds that the records of
participants, in their files and in the snapshot, credit them only with what one of their turns
came to (`BackedDisk`), that what a session stored is what its driver said
(`DriverSaid`, without which a cancellation could overwrite an answer), and that nothing
happens before the turns are prepared (`FreshOK`).  The last part is where
the hypotheses come from: `EarlyCancel = FALSE`, as in the run, and `[]LongEnough`, that
the lifetime is not over before the snapshot names the turns.  Otherwise the Team
goes on to `cancelling` or `closing` and a preparation that a crash cut short can
still be repeated after it; when a cancellation came first, it writes `prepared` over a
turn that is cancelled.  `LifetimesAreLong` shows that the second holds by
itself for panels and where lifetimes do not end.

`WorkflowRun_proofs` proves, for every validated workflow, any number of Attempts, any
faults and any requests, `RunInvariant`, `RunTyped`, `ConcludedExecutionsAreOver`,
`SucceededStays`, `DependenciesEndFirst`, `SlotsInvariant` and `LimitHolds`.  The
assumptions are `WorkflowAssumption` (a finite graph in topological order),
`RunAssumption`, and `FileAssumption`, by which an absent Attempt is no snapshot.

None of the properties is inductive, because what a thread decided under the mutex
happens later: the writes one by one, the start of an execution after the launch was
recorded, the outcomes of a cancellation after the Backend answered.  `RunInv` (in
`WorkflowInv`, with the other invariants below) says of each of these what makes it still right.

- `FilesOK`: the snapshots of nodes have the conclusions, Attempts and room for a next
  Attempt that belong to their phases.  A retry and a launch both need the last part.
- `ControlOK`: a controller, a caller's cancellation and an action exclude each other, as
  the lease demands, and launches exist at one point of the controller only.
- `TodoOK`: every write that is due is a `PlainOK` one (it creates nothing, keeps what
  succeeded, concludes an Attempt only when its execution is over and none can still be
  started), or it belongs to a batch (`BatchOK`) and creates an Attempt or names
  the one that the write before it created (`CreatesOK`, with the dependencies of the node, from
  which `StartsAfterDeps` follows).  Two writes of one node agree (`AgreeOK`); and a durable
  plan can be applied in any state between its first write and its removal
  (`IntentOK`), so that a crash at any write of an action and the replay after it are
  covered by the same argument.
- `ThreadsOK`: a launch on its way has an Attempt that nothing concluded (`LaunchOK`), unless
  the Run is being cancelled and the launch will find that out; what was observed
  still holds when it is applied (`ObservedOK`); a target of a cancellation is busy, does not
  succeed meanwhile, and is over once it counts as stopped (`TargetOK`,
  `RecoverOK`); an execution that runs was dispatched and is open (`ExecOK`).

The subtle step is that of `LaunchBegin` against `CancelTarget`: a cancellation counts a
prepared Attempt as stopped although its launch may be on the way.  It is right because the
controller is stopping, or the Run is marked, whenever it does so, and
`LaunchBegin` looks at both under the mutex; `Over` is that argument.  `LimitHolds` needs
a second layer, `SlotsOK`: beside the active Agents it counts those that a batch is about
to start and the targets of a cancellation, which become active again when their
cancellation fails.  Of the operators, what `PlanSchedule` selects is proved to be startable
and within the free slots for every graph (`ReadyFits`), with `InOrder` by a least
counterexample as above.

The third layer, `EndInv`, is about the end of a Run: `CompletedRunsAreOver` and
`CompletedStays`.  It follows the last write of each mutation.  The write that completes the Run
is the last one, and every node has ended once the writes before it are done
(`CompletesOK`), because `aggregateRunState` was asked about the nodes as the batch leaves
them; nothing but an action has writes due on a completed Run (`CompletedOK`); and an
action writes its plan before it touches a node of a completed Run and removes it only after the
Run says that it was applied (`ActionOK`).  `CompletedRunsAreOver` assumes `Uncancelled`, that no
caller asks for a cancellation, and `CompletedStays` assumes `NoRecoveredCancel`, that no caller
does or that no controller is interrupted by a crash or a failed heartbeat: a recovered controller
that takes up a cancellation writes the Run without looking at its phase and cancels one
node only, so both properties fail with it (section 6).  Faults, Attempts, actions and the
workflow stay arbitrary, and the runs check both properties for requests and faults of these kinds.

The fourth layer, `RestInv`, proves `ControlledWhileRunning` (`RestsWhenQuiet`) under `Uncancelled`:
it gives the reason of each exit of a controller.  Only a failed heartbeat interrupts one, and then
a recovery is due (`HeartOK`); a Run with a controller is neither paused nor being cancelled
(`PhasesOK`); a controller that schedules and will not repeat its loop has no Agent that runs
(`SchedOK`); and one that exits leaves a Run that waits or is completed now and after the writes
that are due (`ExitOK`).  The step that matters is `scheduleBatch` without anything to launch.  It
exits although the aggregated Run runs only if its batch is empty, and that never happens
(`BatchProgress`): with no node running or waiting, the first unstarted node in topological order
has only ended dependencies (`SomeStable`), so it has a verdict; it is skipped, waits for an
approval, or is an Agent, and since no slot is taken the first eligible Agent fits (`SomeReady`),
because the effective limit is positive.  With cancellations the property is false: section 6
has the run that shows it.

Model-checked only: of the Team `ClosedIsOver`, `ClosingIsKept` and
`AnsweredIsDone`, which hold for as many disturbances as the run has and not for any
number (section 6); of the compiler `FairShare`, and of routing
`UsableRouteFound`, which rest on recursive operators and on the sorting of a set; the
liveness properties and `ENABLED`, which are out of the prover's reach.

## 6. Findings

- `false_cancel`: the recovery of a cancelled Run cancels the first active node only and
  then completes the Run as cancelled.

Further configurations have known counterexamples; `tlc -workers 2 -config X.cfg M`
shows each in a minute or less.

| Configuration | Module | Property | Behaviour |
|---|---|---|---|
| `MCJournalLateCancel` | `ActionJournal` | `ErrorMeansNotApplied` | the caller of a cancellation that takes the lease just after the monitor resolved its request finds no request file; it answers `not_found`, finally, although the Run was cancelled, and overwrites the response |
| `MCRunOrphanAttempt` | `MCWorkflowRun` | `WaitingIsActionable` | a crash between the creation of an Attempt and the write of its node leaves a Run that waits, to which no action applies |
| `MCRunStaleCancel` | `MCWorkflowRun` | `ControlledWhileRunning` | a refused cancellation stops the controller nevertheless |
| `MCRunFalseCancel` with `PROPERTY CompletedIsFinal` in place of its invariant | `MCWorkflowRun` | `CompletedIsFinal` | `persistCancelFailure` reopens a Run that the monitor has just completed |
| `MCRunIntentLeft` | `MCWorkflowRun` | `IntentIsSpent` | a crash between the Run write that records an action and the removal of its intent leaves the intent for ever; it refuses every later action of the Run |
| `MCTeamReopened` | `MCTeam` | `ClosedStaysClosed` | a cancel_turn that completes after the Team was closed settles its round and makes it idle again (`docs/fishyume-m7.4-implementation-plan.md:33-34`) |
| `MCTeamEarlyCancel` | `MCTeam` | `ClosedIsOver` | a Team cancelled before its turns are prepared closes with a turn that is then prepared (`docs/fishyume-m7.1-acceptance.md:65`) |
| `MCSessionClose` | `SessionProtocol` | `CloseSucceeds` | a failed launch advances the driver's revision, the Team keeps the old handle, and every later CloseSession is refused |
| `MCHandoffStart` | `TeamHandoff` | `StartupResumes` | an intent whose binding lost to another one after a failed write is replayed at every start, refused, and ends the start (`cmd/wf-engine/main.go:186`; `docs/fishyume-m7.2-acceptance.md:33-34`) |
| `MCContextTwice` | `MCContext` | `UsedOnce` | the identity of a reservation holds the hash of the context; a preparation repeated after a record expired reserves a second use (`docs/fishyume-m5.5-context-policy-memory-closure.md:41-42`) |
| `MCContextTwice` with `INVARIANT AdmittedCompiles` in place of its own | `MCContext` | `AdmittedCompiles` | the registry and the compiler admit 128 sources (`compiler_v2.go:42`), two contracts are appended (`:88`), and the validation refuses more than 128 components (`contract_v2.go:296`): a node with 127 or 128 included sources has no context although every budget fits |
| `MCTeam` with `Unlisted = {P1}` | `MCTeam` | `ClosingIsKept` | a follow-up that failed because the catalog lost a participant's model keeps its intent; repeated after the Team was told to close, when the model is listed again, it makes the Team running again |
| `MCRoutingRefused` | `MCRouting` | `RefusedIsNotApplied` | the saved configuration shares its slice with the new one, so an update that is refused stays in memory and reaches the file with the next one (`routingconfig/service.go:440-463`) |

More behaviours were read from the code and have no run: a process killed
inside `createLeaseExclusive` leaves an empty `control.lock` that no acquire can read;
an action after a failed cancellation clears the durable intent to cancel;
`controllerMutation` asks for the generation of its own process and not for the
lease, so that with two engine processes on one store a controller suspended
beyond its TTL would commit beside its successor until its heartbeat fails; a
retry leaves the abandoned execution of the old Attempt out of every later
cancellation; and an action refused because a controller holds the lease is an
internal error, which leaves it pending in the journal and repeats it at the
next restart; a retry of a node that waits for `completion_missing` starts a second
execution while the first may live, beyond the limit; a batch of skips and an approval
makes the Run wait although a node became ready; `mapActionError` tells errors
apart by their text, and the path of an intent file holds `action-intents`, so that a
failed write or removal of an intent becomes a final `invalid_argument` although the
action may have been applied, or applied in part (`bad_payload` in `ActionJournal`); and a repeated approval with the same decision supersedes a
half-done action and leaves its intent behind.

Of the Team: a crash between the write of the last turn and the snapshot leaves a panel
that nothing settles; a dispatch that is asked for while the old controller leaves
is dropped until the next restart; a crash between the execution envelope and the
`active` write of a turn drops its answer and leaves the turn dispatching; a cancel_turn
that meets a late answer leaves the turn `cancelling`; with a host that has several
actions open, an intent does not advance the version, a follow-up can overwrite
`closing`, and two follow-ups can exceed the grant; a crash between the snapshot and
its event loses the event; after a crash a cancelled panel shows a participant as
cancelled whose turn is indeterminate; a lost session is parked again by a cancel_turn; a
session whose lifetime ends after a crash in `prepareInitialTurns` closes with a
prepared turn.  More disturbances than the run has go
further: a second follow-up cut short by a crash counts its turns before the snapshot
counts their cost, so that the first, answered one no longer finds all turns paid; a
pending cancel_turn that is replayed beside a cancellation of the Team can reopen it
after the answer; and a close at the end of the lifetime, with a crash in the preparation
before and one after, is undone by the preparation that is repeated.

Of sessions: a crash after `ObserveTurn` advanced the revision and before the Team
stored it loses the session, and its answer becomes indeterminate; the harness
driver refuses to close an active idle session although
`sessiondriver/contracttest/contract.go:85` closes one.

Of Memory: receipts are evicted at `MaxMemoryReceipts`, after which a repeated mutation
is applied again; a wall clock that is set back makes a valid catalog fail its validation
as corrupt.

Of routing: Discover and Probe store their result before they rebuild the
catalog, so that with no usable route every later start fails; a failed write of a
catalog leaves one active that is not on disk; the active catalog is not rebuilt
when a probe expires; a failed write of the discovered Agent CLIs leaves them in
memory, and new Teams use the catalog of before until the next refresh, change of a Team
route or restart (`team_routes.go:162-165`); a change that leaves fewer than two Team routes, or whose
catalog cannot be written, is answered and not applied.

## 7. Plan

Modelled: the lease, the Run with its scheduler, the journal of actions with its
mailbox, Teams in both modes, sessions over both drivers, Handoffs, the Memory ledger
with the contexts of Attempts, the budget of the compiler, routing.  Next:

1. *Proofs*: what remains true of `RunEndsKnown` and `ControlledWhileRunning` when a Run is
   cancelled.
2. *Refinement*: the abstract session driver inside `TeamSession` by `SessionProtocol`;
   the Backend assumed by `WorkflowRun` by the supervisor's files and markers.
3. *Starts once*: StartRun with its own journal phases and planned Run id.
4. *Event logs*: snapshot before event, sequence repair, subscribers.
5. *A concurrent host*: `HostIsSerial = FALSE` in the Team.

Not modelled:

- *control plane*: its owner lock is the operating system's, assumed by the models as
  one engine process per store; the endpoint file and the idle shutdown are I/O around
  it;
- *RPC server*: it decodes, calls one operation of a service and encodes; the models
  begin at the services;
- *workflow definitions*: parsing and validation keep no state; the models assume a
  validated graph (`WorkflowAssumption`);
- *one-shot process driver*: `codexprocess/backend.go` and the supervisor appear as
  Start, Observe and Cancel of an execution;
- *clients*: presentation and I/O over the same calls.
