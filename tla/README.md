# Specialists: specifications and proofs

The repository runs AI "specialists" against a working tree. There are two
runtimes. The native one hosts Pi agent sessions inside the process that
dispatches them (`src/src/activation/`), and a writer lease keeps two of them out
of one worktree. The older one runs a specialist as a supervised job with a Pi
child process (`src/src/specialist/`, `src/src/pi/`), and keeps its state in an
SQLite database that several processes write. The command line, the console and
the MCP server sit on both.

This directory holds TLA+ specifications of both: the lease, its recovery, the
host and the questions of the native runtime; the job, the Pi session, the epic
and the node of the older one. TLC runs over small instances, and TLAPS proofs
cover the safety properties of the passing runs for every size, all but two
(`RemovalIsRecorded` and `StartHasAWinner`, see Proofs). `PROJECT.json` maps each
definition to the lines it was read from. `src/src/` is shortened to
`src/` in the comments of the modules.

## The system's parts

| Part | State | Operations | What is hard about it | What makes it correct |
|---|---|---|---|---|
| Writer lease, `activation/workspace-lease.ts` | one lease file per worktree | acquire, rewrite, release, inspect, admitToolCall, admitCoordinatorToolCall | several processes; three looks before each act; death; reused pids | one writer; the writer is covered by a record of its own; nothing of the dead is stolen |
| Reconciliation, `activation/workspace-reconcile.ts` | an append-only log per workspace | reconcile (inspect, decide, remove, append) | it removes a path, not the record it judged; death between two writes | no live holder loses the lease; each removal is on record; a lost workspace can be freed |
| Activation host and registry, `activation/native-host.ts`, `registry.ts` | a record per activation: snapshot, session, subscription | start, fallback walk, resume, retry, answer, stop, attach, session listener | coroutines of one activation interleave at every await; stale checks; failing session creation | calls only under the lease; stop is final; nobody is stranded |
| Authority store, `activation/authority-store.ts` | a row per activation in `~/.xtrm/state.db` | record, remove | a late record after the removal | stopped work has no row |
| Asks, `activation/interaction.ts`, `ask-tool.ts` | pending, answered and waiting asks | request, reply, delivery | an answer before its delivery; stop during an ask | each ask is answered once, to its asker |
| Peer delivery, `peer-bridge.ts`, `transport/*` | one JSON file per message, shared by two processes | attempt, receipt, reply, poll | unlocked read-modify-write; duplicates; late replies | a delivered message stays delivered |
| Job supervisor, `specialist/supervisor.ts`, `control.ts`, `job-control.ts` | a status row per job, a FIFO, timers | claim, run, wait, resume, close, stop, crash recovery | three writers of one row; signals; death of the supervisor | terminal states stay; one start per claim; a waiter wakes |
| Observability database, `specialist/observability-sqlite.ts` | jobs, events, epics, chains, leases | upserts and claims in transactions | whole-row upserts from stale snapshots | no lost transition |
| Epics, `specialist/epic-*.ts`, `cli/epic.ts`, `cli/merge.ts` | an epic row and its chains | derive, reconcile, merge, abandon | the row is upserted by members; a lock file outlives its owner | merged and abandoned are final |
| Node supervisor, `specialist/node-supervisor.ts`, `cli/node.ts` | the node's state and row, member entries and rows, jobs started | spawn, poll, report, resume, restart, watchdog, cleanup; spawn-member, complete, stop | jobs and rows change between any two steps; a signal reaches several handlers of one process | one coordinator; nothing left running unnoticed; run() returns |
| Pi RPC session and runner, `pi/session.ts`, `specialist/runner.ts`, `utils/circuitBreaker.ts` | pending requests, a done promise, timers | prompt, wait, resume, close, kill; chain retries | timeouts against late answers; a dying child | each request settles once; close ends |
| Script server, `cli/serve.ts` | active slots, shutdown flag | generate, shutdown | slots across awaits | the limit; shutdown waits |
| Gates and prompts, loader, beads client, forensics, metrics, CLI and console | none that decides | parse, render, report | - | - |

Frontends (the Pi extension, the MCP tools) call the host. The host calls the
lease before it creates a session, on each mutating tool call and when a turn
settles or the activation stops; it writes the authority row on each change of
state. Reconciliation works on the lease file behind the host's back, from
whatever process the operator sits in. The library has `reconcile()`, and nothing
under `src/src` calls it yet; the specification takes it at its own contract.

In the older runtime `sp run` starts a supervisor process per job. The supervisor
drives the runner, the runner drives a Pi child over its stdin and stdout, and the
supervisor writes the job's row. Operators act on a job through its row, its steer
pipe and signals; epics are derived from the rows of jobs by whoever writes or
shows one; a node is a process that runs the jobs of several supervisors and looks
at their rows.

## Modules

| Module | Models |
|---|---|
| `WriterMutex` | the promise: one owner, who writes only while owning; a lost owner keeps the workspace until `Recover` |
| `WorkspaceLease`, `WorkspaceLeaseProofs` | the lease protocol of several processes on one worktree |
| `WorkspaceReconcile`, `WorkspaceReconcileProofs` | extends `WorkspaceLease` with operators who reconcile |
| `ActivationHost`, `ActivationHostProofs` | one host process: all coroutines of its activations on one workspace |
| `PeerInteraction`, `PeerInteractionProofs` | asks, their delivery to a peer, and the two ways an answer comes back |
| `JobLifecycle`, `JobLifecycleProofs` | a job: supervisor, row, steer pipe, commands of operators, repair by readers, the start claim |
| `PiSession`, `PiSessionProofs` | one run of the runner over its models and the RPC session of the child |
| `EpicLifecycle`, `EpicLifecycleProofs` | an epic's row, its chains, and everybody who writes them |
| `NodeRun`, `NodeRunProofs` | a node: its loop, coordinator and members, and the commands of other processes |
| `MC*` | the instances for TLC, one `.cfg` per run |

`WorkspaceReconcile` composes with `WorkspaceLease` by extending it; both refine
`WriterMutex`. `ActivationHost` has a variable that names the holder in place of the
protocol proved to implement that lock. `ActivationHost` sees an ask as a turn that waits;
`PeerInteraction` is what happens to that ask. `JobLifecycle` sees the runner as a
turn that returns or throws; `PiSession` is that turn. `NodeRun` and
`EpicLifecycle` see a job as its row.

A definition marked "Mutant", or one that stands before a definition of `map` with
a name that says what is wrong with it (`RestartWithoutWaiting`, `StopKeepsLease`), is a
wrong variant of that definition, kept to show that a property notices; no
specification uses it.

### WorkspaceLease

A process is a pid with a start tick, as in `selfHolder` and `procLeaseProbe`.
`lease` is the file. Every operation of a process starts with `inspect()`, which is
three actions, `Exists`, `Read` and `Probe`, because other processes run between
`existsSync`, `readFileSync` and the look into `/proc`. The decision that follows
is one action with at most one file operation: `Link` (acquire of a free
workspace; `link()` fails when the file is there), `Rewrite` (resume), `Release`
(unlink), `Admit` and `CoordinatorAdmit` (no file operation, an admitted call goes
into `writing` or `coordWriting` until it ends). The code is synchronous, so a
process is in the middle of one operation at a time (`op`). `Crash` ends a
process's operation and writes and leaves the file; `Boot` gives a pid a later
start tick. A process outside `Verifiers` has no `/proc`: it can see nobody alive
and publishes nothing. Left out: the staging file's name, attempt ids, display
fields, different worktrees (different files).

`CallRelease` and a repeated `CallAcquire` are only made for an activation with no
call in flight. That is an obligation of the host. `LoneTurnHoldsLease` of
`ActivationHost` says where the host keeps it, while a turn is all that is pending of
its activation; the disagreements below say where it does not.

### WorkspaceReconcile

`Propose` starts a reconciliation in an operator's process, `Resolve` is `decide()`
after its own inspection and includes the unlink, `AppendRecord` writes the log
line. `PERMITTED` is the table of the source. All actions of `WorkspaceLease` go on
next to it. There may be any number of operators: the code has no lock among them.
The run `reconcile` has one and checks what holds then, and `reconcile_race` has two
and shows what they do to each other. `OnlyReported` says that an operator proposes
only for a workspace that `projectUncertainWorkspaces` would list as held by a dead
process, which is how the status surface offers it.

### ActivationHost

Between two awaits JavaScript runs alone, so an action is what runs between two
awaits. `run[a][n]` is the coroutine of attempt `n` (`runToSettled`): `prompted`,
`running`, `asking` while Pi works, `settled` or `threw` when the turn is over and
the code behind the await has not run, then `Continue`. The first attempt goes on
with the fallback walk: `validate` and `create` are its two awaits. `swap[a]` is the
coroutine of a retry with a model override, with the same two awaits. Stop is
`Stop` (up to `abort()`) and `StopFinishes` (the `finally` block). The session
listener is `AgentStart` and `AgentSettled`; `listening` is the session the host is
subscribed to, so events of a session it has left are not heard. `owner` is the
lease. `Other` stands for the writers of other processes. Operators call whenever
the state they find allows it, at any await.

The gates of `start()` before the lease (bead, tools, model, thinking level) only
refuse and change no state; they have no action. `CreateMayFail` lets
`createAgentSession` throw, and the guard construction refuse.

What is assumed of Pi, which is outside this repository: a turn calls tools and
then emits `agent_settled` or makes `prompt` reject; `waitForIdle` returns when no
turn of the session is under way; a disposed session emits nothing; `abort()` ends
the turn it is called on, and once that turn is over it returns before a model
answers or an operator calls (`StopDue`). A turn that waits for an answer is the
exception: an ask awaits its transport without a signal and without a timeout
(`ask-tool.ts:89-103`), so an abort may end it (`TurnOver`) and need not, and the
fairness does not say that it does.

### PeerInteraction

A question is a tool call with its ask in the transport's map (`pending`, `waiter`,
`answered`), its record file (`record`), the push of its frame (`wire`, `frame`,
`receipt`) and, when a watcher looks after it, a reply file (`stored`). A message is
a question or its reply; both are pushed the same way. `Request`, `SendReturns` and
`Resume` are the asking side; `StartPush`, `Written`, `Receipt`, `ReceiptTimeout` and
`PushEnds` one push; the reply tool and the reply file race for the ask through one
`Reply`. A step is what runs between two awaits. The store's reads and writes are
synchronous, so `recordAttempt` and `recordReceipt` are one step each; a second
process that writes the same record is not in the model. Questions share nothing
but the maps they are keys of: one question is all TLC needs, and the theorems are
for any set. Left out: message text, framing, how the coordinator is found, notes,
completion events, and `ask`/`awaitReply` of the adapter, which nothing calls.

### JobLifecycle

`row` is the status column, which every writer replaces whole; `snap` is the copy in
the supervisor's memory it is written from. `recency` is `updated_at_ms`, as an order
in which the row of a write comes after all others or, within the millisecond, ties
with the latest. `pc` is where `run()` is; within a process the callbacks of one event
loop do not overlap (`Free`), and processes interleave at every write. Until
`SessionUp` nothing is registered that could kill the session, and a stall or a
SIGTERM only says so (`KillSession`). `pipe` is the FIFO: commands append lines,
`TakeResume` and `TakeClose` read them, and opening it when nobody reads, because the
session is not up or the supervisor was killed, blocks the command (`Send`).
`resuming` and `closing` are calls into the session, `exit` is the promise `run()`
waits on. `complete` and `told` are what was logged and what the parent was told.

Whether a job's process lives is asked in three ways, and none is exact: `PidTaken` is
`kill(pid, 0)`, which a reused pid answers; `LooksDead` adds the tmux session, which
can be gone while the process lives; `Identified` compares start times. `ghost` is how
a probe is misled, for the jobs in `Misprobed`. Readers (`sp list`, `readStatus`) read
an active row and repair it in a second step, by what the probe says.

An operator's command is split at each of its reads, writes and signals. Stop looks
at the events for the status it is going to leave (`Look`), reads the row (`Reread`)
and writes it whole (`WriteStatus`), and then signals, waits and kills (`SendSigterm`,
`ForceKill`, `Slay`, `Reap`). Finalize reads the row, writes the close line
(`FinalizeWaiting`, two steps) and updates the row as stop does. `Crash` kills a
supervisor; the row and the log stay. A job also competes for the claim on its bead
(`Claim`, `Refuse`). Left out: steering, bead notes, commits, worktrees, and the mode
without a database.

### PiSession

`cmd` holds the last command of the runner and of whoever steers, with its id; the
pipes `inbox` and `outbox` keep their order. `done` is the promise of the turn and
`by` the turn whose end settled it. `HandleEvent` takes one line, `CommandTimeout`
and `StallTimeout` are the timers, `Kill` rejects what is pending, `ChildClosed` is
the close event. `cut` remembers that a kill has found the promise open. The runner
prompts, waits, reads the output, and after an error does what the error is taken for
(`TakenFor`): a timeout or a stall is transient and the same session is prompted
again; a rate limit goes to the next model at once; a refusal and the words of a
child that died may look like any of these. A kept session goes to the caller, who
resumes or closes it. The child is external: it reads, answers, ends turns, speaks,
exits with or without an error at any time, and may do nothing. Every line it writes
rearms the stall timer. The stall timeout is set (the runner's default); a run timeout
may strike but is not owed (no fairness), so that rest is due to the stall timer alone.
A model whose circuit is open may be skipped (`Init`, `NextModel`); the counters of the
circuit breaker are left out, and so are the content of events, metrics and the tool
catalog.

### EpicLifecycle

`epic`, `redirect` and `members` are the rows of the epic and of its chains; `job`,
`verdict`, `started` and `live` are what readiness is derived from. A step is one
database call of one process; reads that follow each other at once are together where
a write that falls between them comes to the same, as far as the properties go, as one
just before or just after (`LoadChains`, `SyncFinds`, `AbandonLooks`, `GatherReads`). Every actor loads a summary call by call,
the job rows, the epic's row, the memberships and results (`LoadJobs`, `LoadRow`,
`LoadChains`), so that its parts may never have held together, and writes what it
derived from it in a later step: a supervisor after it reopened the
epic and joined its chain (`Reopen`, `Join`), a viewer, and the commands sync, abandon
(and forced abandon), merge, pull-request merge, and `sp merge` of a chain or of an
epic. A sync reads, scans and finds what has drifted and repairs it row by row; the
merge of one chain is guarded by its readiness (`GuardReads`, `GuardLoads`,
`GuardJudges`), `sp merge` of an epic is not (`GatherReads` of the kind `"chain"`). `cmd`
keeps what a command has read. `lock` is the advisory lock file, which stays when its
owner dies. A merge takes the newest job of each member, which has to be over; the merge
of an epic also refuses any running job of a member (`Busy`, `cli/epic.ts:263-279`).
A chain's rebase, merge and type check are one step that succeeds or fails;
`published` is what reached the main branch. Left out: reasons and summaries, and
git's own states.

### NodeRun

`st` is the supervisor's status and `row` the node's row; `mem` and `mrow` are the
entries and rows of the members with their generation. `pc` walks through `run()`:
spawn, poll, report one change at a time, decide, sleep, restart (stop the old
coordinator, wait, launch), cleanup (tell one job to close and wait for it, then the
next), returned. `Move` is `transition()` inside the loop: a move that the table
forbids throws, and the `catch` makes it an error. `heard` and `changed` are what
the watchdog counts as progress.

A job has a row (`job`) and a supervisor (`at`), and the two may disagree: the loop
reads rows, and a row is written by the supervisor (`Writes`, whatever it says by
then), by `sp stop` and `sp finalize` (`StopOneJob`, `FinalizeJob`) and by readers that
take the process for dead (`Repaired`). `early` holds the jobs whose row somebody else
settled while their supervisor lived. `sp stop` writes `done` for a job that has ever
logged a turn and `cancelled` otherwise (`Verdict`), and `cancelled` is no end for the
loop. A supervisor that ends writes its last row and removes its pipe and its SIGTERM
handler (`RunOver`).

`StopJob` writes a close line synchronously. Without a pipe (`Mute`, a failed `mkfifo`)
nothing is written; with a pipe that nobody reads yet, because the session of the job
is not up, or not any more, the write holds the event loop of the whole node
(`blocked`) and every job in its process with it. `resumeJob` throws where there is no
pipe (`ResumeThrows`). A supervisor that throws before it has told of its job leaves
`startJob` waiting for ever (`StartIsLost`). Nothing is assumed of jobs: they may fall
silent in any state.

Outside the process, `SpawnBegins` and `SpawnWrites` are spawn-member (the job runs in
the command's process, then the row is written), `CompleteNode` writes the node's row,
`StopNode` and `SignalNext` are the loop of `sp node stop`, whose signals all go to the
node's process, where each supervisor's handler runs once. One replacement per member.
Jobs may move between any two steps of the loop, more than the event loop of the node
allows for its own.

Left out, because nothing in `src/` reaches it: the dispatch queue, the private
spawn and complete actions, the branch that recovers a node (`bootstrapNode` always
writes `created`, so no coordinator or member job is found), and everything for the
status `stopped`, which no job gets. Also left out: resumes of members by the
coordinator's commands, a resume line that is read in the middle of a turn, the moment
between a job's first row and its SIGTERM handler (`JobLifecycle` has it), node memory
and events, prompts, create-bead, and promote.

## Runs

A pass run is exhaustive over its instance. A violation run checks one sentence of a
comment that the code does not keep; it is a finding in `PROJECT.json` with the
sentence quoted.

| Run | Instance | States | Shows |
|---|---|---|---|
| lease_safety | 3 processes (2 can verify, 2 may die, 1 has a coordinator), 2 activations, 4 starts, fair | 552,058 | `TypeOK`, `WriterHolds`, `NeverStolen`, `ImplementsMutex`, `ContentionHasAWinner` |
| reconcile | 3 processes, 2 that die, the third reconciles; 3 starts, fair | 261,974 | `ReconcileTypeOK`, `RemovalIsRecorded`, `RecoversMutex`, `DeadHolderIsFreed` |
| reconcile_race | 3 processes, 2 reconcile, the third dies | | finding: the slower of two operators removes the lease of a live writer |
| host | 1 writer and one outside, 2 models, 2 attempts; resume, retry, override, stop at any await, failing session creation, fair | 20,289 | `TypeOK`, `NeverStranded`, `LoneTurnHoldsLease`, `StoppedHoldsNothing`, `StopCompletes`, `AttemptReports` |
| host_resurrects | stop only, 2 models | | finding: the fallback walk runs a session for a disposed activation |
| interaction | 1 ask and its reply, both routes, three kinds of peers, fair | 15,739 | `InteractionTypeOK`, `NoSilentLoss`, `OneAnswer`, `DeliveredIsConfirmed`, `ReplyResumes` |
| job | 1 kept job, 1 operator with 2 commands, 2 lines in the pipe, 1 crash, readers, fair | 1,240,768 | `JobTypeOK`, `DoneIsFinal`, `SettledStays`, `CloseEnds` |
| job_claims | 2 jobs on one bead, one kept and misjudged by the probes, 1 crash, equal times | 393,032 | `StartHasAWinner` |
| pi_session | 2 models, 2 attempts each, a resumed turn, a child that may talk for ever, fair | 115,565 | `SessionTypeOK`, `DoneIsEarned`, `KilledTurnFails`, `RunRests` |
| pi_retry | the same, without fairness | | finding: a prompt retried on the same session waits for a promise that is settled already |
| epic | 2 chains (one in review whose membership is from before, one that passed), 1 command of any kind, 1 viewer, 1 crash, fair | 1,056,738 | `EpicTypeOK`, `MergedIsPublished`, `FinalIsRespected`, `RowConverges` |
| node | 1 member and its replacement, 2 coordinators, the second without a pipe, both strategies, 1 command, fair | 1,185,610 | `NodeTypeOK`, `OneCoordinator`, `NothingLeftBehind`, `NodeReturns` |

The shape of the properties follows what the code promises, and what it does not:

- `LoneTurnHoldsLease` is about a turn that is alone. A turn loses its lease to another
  coroutine of its own activation, a retry that meets the fallback walk or an operator
  who does not wait for a result, and the disagreements below say where.
- `StoppedHoldsNothing` names the one call that takes a lease for a stopped activation,
  an override that was validating its model; `NeverStranded` the one attempt that
  strands, one that was admitted and never got its session.
- `StopCompletes` and `AttemptReports` stop at an ask that nobody answers.
- `reconcile` has one operator at a time, whose process does not die between the removal
  and the log line: with two of them `RecoversMutex` fails, as `reconcile_race` shows,
  and a death in between leaves a removal without its line.
- `DoneIsEarned` is about attempts that were not retried in the session; `pi_retry`
  is the rest of it.
- `RunRests` and `SettledStays` have their limits in the code: every line of the child
  rearms the stall timer, so one that keeps talking never rests; and while a supervisor
  lives, its whole-row writes may undo a row that a command has settled.
- `OneCoordinator` and `NothingLeftBehind` have the set `early`: a row that a stop, a
  finalize or a reader has settled is all the node looks at, and the supervisor behind
  it may live on. `NothingLeftBehind` is about jobs of the node's own process. Jobs of
  spawn-member live in another one, and the node does not know all of them.
- `NodeReturns` has three ways not to return: a job that was never told of, a write into
  a pipe that nobody reads, and a coordinator that never ends its turn.
- `StartHasAWinner` says that competing starts do not all give up. That one of them
  gives up is not so (see the disagreements).

### Bounds

`MaxClock` bounds process starts: with 4, both mortal processes can die, come back
under the same pid and meet each other's leftovers; with 3, in `reconcile`, the
operator runs and either a second writer moves in or the dead one's pid is reused
(the theorems cover any number of starts). Three processes are needed for a
contender, a holder and one who cannot verify, or who reconciles; two activations
for a conflict. `MaxAttempts` and `ChainLength` bound an activation's life: with 2
and 2 every pair of coroutines that can coexist does. One writer is enough, since
activations of one host meet only in the lease, where `Other` is the second. Session
numbers follow from those bounds.

In `JobLifecycle` jobs touch each other only in the claim, so one job with two
commands has every race of its row, and two jobs without commands the races of the
claim; with three jobs, tried once, `StartHasAWinner` holds too (7.8 million states).
`PipeBound` 2 has a resume in front of a close. `Misprobed` is empty in `job` for the
size of the run; with the job in it, tried once, nothing else happens (4.6 million
states). In `PiSession`, `MaxAttempts` and `Models` of 2 have a retry and a fallback,
`MaxTurns` 2 a second turn on one child; `Pipe` 2 bounds how far the child may be ahead
of its reader, never how much it says in all. In `EpicLifecycle` one chain has a job to
wait for, and nothing but its membership before that job starts, and the other is
ready or merged on its own; one command and a viewer, supervisors and a crash write at
each other's every call, `CrashBound` 1 leaves the lock behind. In `NodeRun`,
`MaxRestarts` is the code's own constant; one result per coordinator job (`OutBound`)
is enough to tell an empty one from one that was heard; `Mute` has the second
coordinator, so that there are close lines and resumes with and without a pipe; and two
members multiply the states beyond an exhaustive run without adding a step that
relates them: members meet only in `AllTerminal` and in the node's health. A
replacement counts as the command. The safety properties are proved for any members
and any number of commands (Proofs).

Deadlock is not checked, because everything may come to rest: activations, jobs and
commands are issued a bounded number of times.

### Fairness

`WorkspaceLease!FairSpec`: a synchronous operation that has begun runs on while its
process lives. `FairReconcileSpec` adds an operator who keeps proposing (strong
fairness, because the workspace may be free in between) in a process that finishes
what it begins; without insistence nobody frees anything, which is by design.
`ActivationHost!FairSpec`: promise continuations run, sessions start or throw, tool
calls return, and turns that do not wait for an answer end (`Answers`; strong fairness,
since a turn cannot end while one of its calls is in flight and may make many calls).
Nothing makes an operator answer an ask, and nothing makes an aborted ask return.

`PeerInteraction!FairSpec`: continuations, timers and watcher ticks run; nobody has
to ask, answer or report. `JobLifecycle!FairSpec`: a session starts or fails to, a
turn ends (`PiSession!RunRests`, for a child that does not talk for ever), and a living
supervisor runs its callbacks and reads its pipe; of readers and operators nothing is
assumed. `PiSession!FairSpec`: the client's timers and continuations run; the child
owes nothing. The stall timer goes off, unless lines keep coming, because each of them
arms it anew: `WF(StallTimeout) \/ []<><<HandleEvent>>`. `EpicLifecycle!FairSpec`: a
job that runs ends (strong fairness, since it may be written again and again), a write
that was begun goes on, and somebody keeps showing the epic; crashes end that for the
process they hit. `NodeRun!FairSpec`: the loop runs while its process lives and is not
blocked, and the two minutes without progress pass when the coordinator is not in a
turn; in a turn it may be inside `node wait-phase`, which the watchdog spares. Of jobs
nothing is assumed.

## Proofs

Each component has its proofs in a module of its own, `<Component>Proofs`, eight of
them. Every type invariant is a theorem there, and so is every safety property of a
passing run except `RemovalIsRecorded`, which needs a single operator who does not die
between two writes, and `StartHasAWinner`, whose inductive invariant (about
the row that the query puts first among rows which others may end) is not worked out.
No theorem has a hypothesis on how operators behave, with one exception,
which is a property itself: `RecoversMutexTheorem` is about behaviours in which no
removal hits the file of a living holder.

| Component | Assumed of the constants, beyond types and bounds | Inductive invariant |
|---|---|---|
| `WorkspaceLease` | nothing | `IInv` |
| `WorkspaceReconcile` | nothing | `TInv`, `GInv` |
| `ActivationHost` | nothing | `Base`, `WInv` |
| `PeerInteraction` | nothing | `IInv` |
| `JobLifecycle` | nothing | `JInv` |
| `PiSession` | nothing | `TInv`, `CutInv` |
| `EpicLifecycle` | a command is not a viewer | `EInv` |
| `NodeRun` | nothing | `IInv`, `FInv` |

For `WorkspaceLease`, for any sets of processes and activations and any number of
starts: `TypeCorrect`, `MutualExclusionTheorem`, `WriterHoldsTheorem`,
`LeaseNamesItsProcessTheorem`, `NeverStolenTheorem`, `OnlyOwnReleaseTheorem` and
`ImplementsMutexTheorem`. The assumptions are that the named subsets are subsets and
that `NoLease`, `NoProcess` and `NoAct` are none of the values they stand beside.

The inductive invariant `IInv` is needed because `WriterHolds` says nothing of
operations in progress. A decision acts on what was read some steps ago; what saves
it is that an operation on an activation runs in the process that minted it
(`OpsRunAtHome`), that this process is busy with it, and that nobody else removes
that activation's record, so what an operation read of its own record is still
there (`OwnLooksAreCurrent`). `ReleaseIsQuiet` carries the host's obligation through
the three looks, and `ClockBounds` makes a reused pid a different process for ever.
`LeaseSteps` lists how the file can change at all, and from it come the two action
properties and the refinement.

For `WorkspaceReconcile`, for any number of operators who propose anything at any time:

- `ReconcileTypeCorrect`; `TInv` types what each operator has in hand.
- `DecisionsNameTheDeadTheorem`: a decision to remove, in the log or on its way there,
  names a holder that is gone, then and for ever. The three looks of an inspection and
  the decision may be any time apart: `GInv` says that a tick once read names the
  process it was read of, and that "nobody" and "a later start" cannot become false
  again.
- `RecoversMutexTheorem`: if no removal hits the file of a living holder, the whole is
  the writer lock with recovery. So the race of `reconcile_race`, where the file is
  another by the time it is removed, is the only way in which any number of operators
  can break the lock. The invariant of the lease is kept by every other step
  (`SparingStep`).

For `ActivationHost`, for any activations, writers, chain, bound on attempts and
calls of operators at any await, without a hypothesis: `HostTypeCorrect`,
`NeverStrandedTheorem`, `StoppedHoldsNothingTheorem` and `LoneTurnHoldsLeaseTheorem`.
`Base` adds that a registered record's session is newer than what is disposed of and is
the one listened to, that nothing runs for an activation before it is registered, and
that a writer which creates its first session holds the lease. `WayOn` is what
`NeverStranded` needs to be inductive: a live activation is in a state one can resume
or retry from, or some coroutine of it is going to say so, or its last attempt has not
been prompted; `Numbered` makes "its last attempt" the right one. The two others are
action properties and follow from `Base` step by step.

For `PeerInteraction`, for any set of questions: `InteractionTypeCorrect`,
`NoSilentLossTheorem`, `OneAnswerTheorem` and `DeliveredIsConfirmedTheorem`, without
an assumption. The invariant (`Invariance`) adds to the four what ties the places
that know of a question: an open ask has its waiter parked and no answer accepted, a
waiter or a stored early answer is in the log of accepted answers (`AskInv`), and a
message has no record before its one push, nor is its delivery recorded before a
receipt of this very push was seen (`PushInv`). `NoSilentLoss` alone is not
inductive, because it says nothing of an answer that came before the waiter.

For `NodeRun`, for any finite set of members, any results, jobs without pipes and number
of commands: `NodeTypeCorrect`, `OneCoordinatorTheorem` and `NothingLeftBehindTheorem`,
from `NodeAssumption`. They hold with rows and supervisors apart, because of `JobInv`: a
row says done or error only of a job that is accounted for (`Accounted`: its supervisor
has ended or is being killed, its process is gone, or somebody else settled the row
while it lived). That is stable, where the row is not, since a living supervisor may
write `running` over it. `OneCoordinator` needs to know, too, that the second
coordinator's job is begun only when the first is accounted for, and hence what the
loop had read when it decided to launch (`CoordInv`), and that no generation is known
of a member which was not started (`MemberInv`). `NothingLeftBehind` needs the history
of the members (`RestInv`: spawn-member replaces only a job that is accounted for) and
of the cleanup (`CleanInv`: each job whose turn has been is accounted for, is waited
for, or is on record). What it does not need is that a close line was delivered: a job
without a pipe is waited for and recorded like any other, and a blocked cleanup does
not return. The theorems cover what the run's single member does not: several members,
whose spawns, polls, reports and cleanups are in any order.

For `JobLifecycle`, for any jobs, operators, readers, commands, crashes and misled
probes: `JobTypeCorrect`, `ToldDoneIsFinal` and `EndedRowStays`. `JInv` adds that a job
has a row once its supervisor has begun and a command that is about to write one knows
with what (`RowInv`), and that what a run tells its parent it has logged (`TellInv`).
`SettledStays` then is a matter of who may write the row in which state.

For `PiSession`, for any number of models, attempts, turns and events:
`SessionTypeCorrect`, `FirstAttemptIsEarned` and `KilledTurnFailsTheorem`. `FirstInv`
follows a turn from the client to the child and back. In a first attempt it is in one
place at a time, as a prompt on its way, as what the agent works on, or as the line
that tells its end (`OneTurn`); before a prompt and after an answered turn it is
nowhere (`Quiet`). A retry breaks that, and the run `pi_retry` shows it; so the second
theorem is about first attempts. `CutInv` says that a turn which a kill has found open
is settled as failed and that its session is not used again: neither the lines still in
the pipe, nor the close event, nor a retry or a resumption of the killed session
changes that.

For `EpicLifecycle`, for any chains, jobs and commands: `EpicTypeCorrect`,
`MergedOnlyPublished` and `FinalOnlyOutdated`. The two are action properties, and
`EInv` says what a step may rely on: what a command has taken off its list is
published and it had something to publish (`Sound`), and whoever loaded a summary
while there was no row saw an open epic (`NoRowInv`), so that a first write never
makes an epic final. `EpicAssumption` keeps commands and viewers apart, which the
processes are: an actor has one place and one loaded summary.

Only model-checked, because fairness and `ENABLED` are out of the prover's reach:
the liveness properties `ContentionHasAWinner`, `DeadHolderIsFreed`, `StopCompletes`,
`AttemptReports`, `ReplyResumes`, `CloseEnds`, `RunRests`, `RowConverges` and
`NodeReturns`. Only model-checked of the safety properties: `RemovalIsRecorded` and
`StartHasAWinner`. The three findings are counterexamples of TLC.

## Disagreements observed without a run

Met while modelling, beside the three findings; the models have the behaviour.

Lease, reconciliation and host:
- A coordinator admitted on a free workspace leaves no trace, so a writer can acquire
  under its call (`workspace-lease.ts:458` against line 2).
- An operator's process that dies between the removal and the append has freed a
  workspace without a recorded decision (`workspace-reconcile.ts:203`, against 8-9).
- The row of a stopped activation is saved again by a late continuation
  (`native-host.ts:743`, `774`, `798` against 1075-1078).
- The session of the fallback walk runs without the lease (`native-host.ts:705`,
  `905` against 12-13). A retry during the walk makes two turns of one activation, and
  the first that ends gives the lease back under the other (940), while 932-933 says
  that "the workspace is held across the retry, never dropped, so no orphan is
  possible". An operator who does not wait for a result can meet the settling
  continuation of the attempt before in the same way (776).
- A retry with an override acquires after an await without looking at the registry
  again (973), so one that was validating when its activation was stopped takes the
  workspace for it (958); when its session cannot be created the activation stays
  `starting` (1004), with the attempt advanced. `start()` keeps the lease when its
  session cannot be created (585).
- `stop()` during an ask that nobody answers waits as long as the ask does
  (`ask-tool.ts:89-103` has neither signal nor timeout).

Asks:
- The `answered` entry of an answer that came first stays in the map when the ask is
  not parked any more (`interaction.ts:222`); the ask of a stopped activation stays
  pending; an ask answered by the tool is still listed (`polling.ts:88-97`).
- A first `held` status settles the wait of a push, so a later `released` is not
  counted; a reply stored after the watcher's deadline (`peer-bridge.ts:80`) is never
  routed (`pending-store.ts:271-276`).

Jobs:
- Two starts on one bead can both succeed, one after the other: the row is written
  (`supervisor.ts:1549`) before the claim (1635), which looks at the newest active row
  only, and that is the starter's own. The refusal (1640-1643) tells of an active job
  that only a start in the middle of another finds.
- `isJobDead` and `isPidAlive` (781-798) ask for the pid and not for its start, so the
  row of a dead job whose pid is reused stays active for ever; and a job whose tmux
  session alone is gone is written off while it runs.
- `cancelled` is not terminal for `job-control.ts:112` nor for the node; a living
  supervisor can write over it, while `docs/cli-reference.md:739-741` has it final.
- `docs/cli-reference.md:711` calls finalize atomic; it is a read, a line, a read and a
  write (`supervisor.ts:1092`, 1097, 1160, 1174), and what the supervisor does in
  between is overwritten.
- If the process dies between finalize's write of `done` and its own completion, the
  parent is never told (`supervisor.ts:1091`). Two resumes can overlap (1974). A stall
  during the completion nudge leaves a waiting job with a dead session (2099, 2745).
- A command that writes to the pipe of a job whose session is not up, or that was killed
  while waiting, blocks (`job-control.ts:156`, `supervisor.ts:1096-1098`). A stall or a
  SIGTERM in that time kills nothing (2115, 2210).
- `readStatus` can write an error over the `done` a supervisor writes in between.

Pi session:
- An exit by signal has no code and completes a turn (`session.ts:1169`).
- A stall counts as transient, so the killed session is prompted once more; it
  refuses. `close()` after the exit returns by its 8 second timer only.
- A child that keeps writing lines is never stalled, whatever they say: each line
  rearms the timer (`session.ts:1278`, 1244-1255). `RunRests` without its second
  disjunct is violated by such a child.

Epics:
- `sp epic merge` looks at the epic's state and at active jobs, not at verdicts, so a
  chain without a PASS verdict is published (`epic.ts:358`, `599`), which
  `docs/cli-reference.md:1496` says is refused. A member's status write reopens a
  merged or abandoned epic (`supervisor.ts:1281`). A retry after a failed type check
  skips it for the chain already merged (`merge.ts:1013`), and a retry on a failed
  epic throws (`epic.ts:616`).
- Clearing redirect markers writes a status read earlier (`epic-reconciler.ts:187`).
  The lock file survives its owner (53-63). `sp merge` on a chain of a failed epic is
  not refused (`merge.ts:314`).

Nodes:
- A restart can make two coordinators. `sp stop` writes `done` for a coordinator that
  has logged a turn (`control.ts:27-29`, 143-144); the node takes the row for the job,
  starts another, and the first lives on until its session has closed, writing
  `running` over its row when something happens (`supervisor.ts:2245`).
- Every close line of the node is a synchronous write (`job-control.ts:156`) into a pipe
  that may have no reader yet (`supervisor.ts:2541-2552`), or none any more: then the
  whole process stands still, its watchdog with it. A cleanup after a failed worktree
  or a restart meets starting jobs. A supervisor that throws before it has told of its
  job is waited for without end (`job-control.ts:56`).
- `degraded` has no way to `done` (`node-contract.ts:117`), so a node with one failed
  member whose coordinator finishes ends in `error`. With the manual strategy and a
  node that is `waiting` already, `waiting` to `waiting` throws and it ends in
  `error` too, although `docs/nodes.md` says it transitions to `waiting`.
- What `sp node complete` writes is never read by the loop and is overwritten by its
  next transition. `restartCoordinator` writes the new job id with the next
  transition only.
- `sp node stop` signals the one process of the node once for each member and for the
  coordinator. Each handler runs once, so a later signal can find none and end the
  process: jobs and node stay in the rows as active.
- Member changes seen while the coordinator is in a turn are dropped. A member in
  error is disabled and its replacement is not adopted; the next healthy change of
  another member brings the node back to `running`. The loop writes member rows whole
  and can undo the generation that spawn-member has just written.
- Cleanup does not write the members' rows: spawn-member refuses them ever after.

## Not modelled

- Script server (`cli/serve.ts`): one process with a counter of slots, the set of its
  children and a flag set by SIGTERM. Observed: a request that waits for a slot does
  not look at the flag again, so it may begin, and start a child, after the shutdown
  has signalled the others; and the slot is counted only after the await that checks
  it. Planned as a small module of its own.
- Prompt assembly, parsing and schemas (pure functions without state), forensics,
  metrics and rendering (nothing decides on them), token accounting, the issue
  tracker and git's own states (external). The source queue is a chain of promises
  whose order holds by construction, and nothing constructs the in-memory registry.
- Mutations that do not go through a guarded tool (`pi.exec`, extensions) are outside
  the lease by the code's own account (`workspace-lease.ts:32-54`), and outside these
  models.

## Plan

1. Proofs: further consequences of the invariants (in `EpicLifecycle`, that a chain
   is published once; in `NodeRun`, what the rows say after `run()`), an invariant for
   `StartHasAWinner`, and the safety half of what the liveness properties rest on (no
   reachable state blocks a close, a stop or a reply).
2. `ServeSlots`: slots, children and shutdown of the script server.
3. A second process in `PeerInteraction`'s store, and its composition with
   `ActivationHost`'s `Ask` and `Answered`.

Modules to be proved about use no `RECURSIVE` operator.
