# Verification of atomic-agent

TLA+ models of the concurrent core of atomic-agent: the code that decides which
turn runs when, which dangerous call may run, which provider answers, what a
crash leaves behind, and what several agent processes on one state directory may
do to each other's rows and lock files. TLC checks the models on small
instances; TLAPS proves the core of them for every instance.

Paths below are relative to the repository (`src/` in `PROJECT.json`).

## 1. The system

atomic-agent is a local AI agent. One process hosts a *runtime*; a terminal UI,
an HTTP server, a desktop sidecar, Telegram/Discord channels and a task
scheduler all drive the same runtime, and several processes (a TUI beside
`serve`, two windows) may share one state directory with its SQLite files.
A *turn* is one message and everything the model does to answer it.

### Inventory

| Component | State | Operations | Talks to | What is hard | What makes it correct |
|---|---|---|---|---|---|
| `runtime/turn-controller.ts` | promise chain per session, event hooks, busy set | `enqueue`, `emit`, `isBusy` | every host of turns | aborts in the queue, hand-over between turns | one turn per session, in order; hooks of the running turn only; nobody stuck |
| `runtime/steering-inbox.ts` | pending messages and open windows per session | `open`, `push`, `drain`, `closeAndDrain`, `clearAll` | agent loop, hosts | a push racing the last drain | what a turn returns accounts for every message it accepted |
| `analytics/turn-usage-meter.ts` | usage bucket per session | `begin`, `record`, `snapshot` | turn service, LLM seam | turns that queue behind each other | a turn reports its own calls |
| `runtime/composition/runtime-turn-service.ts`, `agent/agent-loop.ts` | the turn in flight | `runTurn`, `executeTurn`, `steer`, `nameSession` | all of the above, session store | every way a turn can end | every ending releases what the turn held |
| `session/session-store.ts`, `session/turn-owner.ts` | session rows: status, turn mark, title | `save`, `beginTurn`, `finishTurn`, `releaseTurn`, `releaseOwnTurns`, `recoverInterruptedTurns`, `renameSession`, `delete` | turn service, hosts, other processes | stale copies, crashes, reused pids, two-statement writes | a row says `running` exactly while a turn runs; a rename is not undone |
| `tasks/task-store.ts`, `tasks/task-runner.ts` | task rows; runs in progress | `create`, `runOne`, `drainPending`, `runDue`, `cancel`, `stop`, `recoverInterrupted` | scheduler, HTTP, sessions, other processes | two drains of one task, cancel against the end of a run, crash between two writes | one run per task; an outcome goes to its own claim; what is due is served |
| `scheduler/scheduler.ts` | tick in progress | `tickOnce`, `stop` | task runner | stop during a tick | nothing is claimed after stop |
| `scheduler/scheduler-leadership.ts`, `channels/telegram/telegram-lockfile.ts` | two lock files | `isLeader`, `acquire`, `release` | other processes | both take over a dead holder; a file without a pid; who stands by for whom | somebody leads; an overlap passes |
| `approval/approval-gate.ts`, `fanout-scope.ts` | pending requests, grants, declined calls and files, policies | `request`, `resolve`, `denyPendingForSession`, `setLevel`, fan-out scopes | tools, hosts, channels, fusion workers | answer against abort; a declined call that comes back by another way | a no to a file stands for its turn and no longer |
| `channels/telegram/approval-bridge.ts`, `telegram-channel.ts` | prompts with an auto-deny timer, bound sessions | send, click, timer, start, stop, give up | approval gate, Telegram | slow and failing sends, late clicks, a stop under a host's turn | the chat tells the decision; nobody waits for ever |
| `llm/fallback/*` | breaker and sticky override per partition | `pickProvider`, `advanceFrom`, `recordSuccess` | every LLM call | overlapping calls of one session, an edited chain | late results do not undo newer decisions; the primary comes back |
| `runtime/turns-in-flight.ts`, `runtime-lifecycle.ts` | turns in flight, shutdown order | `begin`, `settleCancelled`, `shutdown` | all stores and channels | turns that end during teardown | no row left live |
| `runtime/context-compaction*.ts`, `compaction-background.ts` | manual requests, the operation under way, background jobs | `compactSession`, `beforeStep`, `open`, `close`, `cancelSessionCompaction`, `schedule`, `shutdown` | agent loop, turn queue, session store | a request after the last step; a summary that arrives late | one true answer per request; a stored summary fits the row it is in |
| `agent/batch-executor.ts`, `agent/turn/*` | tool calls of a step | run a batch, recover from a failure | tools, approval gate | concurrency classes, cancellation in a batch | every call has one result |
| `mcp`, `local-llm` | server and daemon life cycles | connect, restart, close | LLM seam, tools | restart during a call | no two daemons, no lost close |

`PROJECT.json` lists every component, the ones that are not modelled too
(providers, prompt building, memory extraction, tools, TUI, CLI, config, import,
tracing, telemetry, installation): they are I/O, data conversion or rendering.

## 2. Modules

| Module | Models | Kind |
|---|---|---|
| `SessionLock` | what `TurnController` promises | abstract specification |
| `TurnController` | `runtime/turn-controller.ts` | component, implements `SessionLock` |
| `TurnService` | turn service, agent loop skeleton, steering inbox, usage meter, on top of `TurnController` | composition |
| `SessionStore` | session rows and turn marks, several processes | component |
| `TaskQueue` | task rows and runner, several processes | component |
| `ApprovalGate` | approval gate, levels, fan-out scopes | component |
| `ApprovalBridge` | Telegram's approval bridge and channel life cycle, on top of `ApprovalGate` | composition |
| `FallbackChain` | the provider fallback chain of one partition | component |
| `Compaction` | control inbox, in-turn and queued compactions, background summaries | component, with the queue of `TurnController` reduced to a sequence |
| `ProcessLocks` | `telegram.lock` and `scheduler.lock` between processes | component |
| `X_proofs` | theorems about `X`, for every module above but `SessionLock` and `ProcessLocks` | TLAPS |
| `MC*` | constants for TLC | model-checking instances |

Each operator that models code has an entry in `PROJECT.json` under `map` with
the lines it stands for. Operators marked `Mutant of X` are broken variants of
`X` that show that a property can fail; no specification uses them.

### TurnController

A submission is one `enqueue()` call. `queues[x]` is the submission whose
promise is the tail of session `x`; `prev[s]` the one whose promise `s` awaits;
`released` the resolved promises. `pc` is where the call is: `waiting` in
`waitOrAbort`; `front` when the awaited promise has settled but the continuation
has not run; `running`; `cancelled` when the caller was rejected while the
promise of the call is still unresolved; `done`, `dropped`, `rejected`.

One step is one piece of JavaScript that runs without interruption. The split
between `Wake` and `Start` is the microtask between `resolvePromise()` and the
continuation of the `await`; `EmitLate` is work (reflection health, provider
notices, naming) that outlives its turn and still emits for the session, so that
its event reaches whatever turn runs by then.
`ticket`, `clock` and `stray` are history variables, which no guard reads.

### TurnService

`EXTENDS TurnController`: a body is now a turn. `phase` follows the loop: `top`
of the step loop (abort check), `stepping`, `prepare` (pending messages taken,
compaction may run and take late ones), `infer`, and the two ways out: `closed`
(every classified ending, through `flushSteering`) and `thrown`. What happens to
a message is its `fate`; `lost` is a message that was accepted and reached
neither the model nor the sender (a turn that throws or cannot be saved returns
no result; a shutdown clears the inbox). A usage bucket is abstracted to the set of
turns whose calls are in it. Blank messages are refused at once and left out.

### SessionStore

One row, as no operation relates two. A process runs one SQLite statement at a
time, and `write()` (used by `save`, `finishTurn`, `renameSession`, the namer) is
a read and an update: `op[p]` is the write between the two, and while it is set
the process itself does nothing else, as `write()` is synchronous. Statuses are
abstracted to what the store tells apart: `pending`, `running`, `interrupted`,
and `ended` for every ending of a turn. `awaiting_*` statuses count as live in
the code but nothing writes them. Process ids are reused: `inc[p]` is the start
time a mark records. A crash may come at any point, and the second statement of
a write or the mark of a turn may fail. Assumed: the boot sweep and the two
releases of a shutdown do not fail; the `turn_owner` column exists. All processes
run on one host and can read each other's start times or not at all
(`StartTimeKnown`), so the branches of `turn-owner.ts:296-315` for another host and
for a probe that fails now and then are one case of `OwnerGone`.

### TaskQueue

A step is one statement. `run[p][t]` is where process `p` is in `runOne` for
`t`: `picked` (read as pending), `claimed`, `turn`, `write` (the check that the
row is still its own has passed, the outcome is not yet written), `requeue`.
`drain[p][t]` says that a drain of `p` will try `t`, and why. Inside a process
the statements of one synchronous stretch follow each other (`Quiet`), but other
processes act in between. Time is reduced to `due`. Assumed: tasks are enabled
with `runOnCreate`, a session factory is wired, the `run_owner` column exists
(the age rule for older databases is left out), two claims never have the same
`started_at`. Every process may tick: leadership only ever restricts that.
`StepFails` (enabled by `StepsFail`) is a statement that fails after the claim.
When an outcome cannot be written because the row has ended, the code leaves the
whole drain of that session; the model drops the task and may go on with its
mates, which adds behaviours and removes none.

### ApprovalGate

A call of a tool is a member of `Req` and asks once; `Call[r]` says for which
session, with which tool and category, on which file, with which shape. Two
members with one `key` are the same call repeated. Every method of the gate is
synchronous, so one action each: `Request` computes the verdict (inside the
scope of a fan-out, else declined before, else approved by level or grant, else
refused by policy, else pending); `Resolve` settles a pending call once and records grants or declines;
`AbortTurns` ends the pending calls of aborted turns. `StartTurn` and `Steer`
forget what was declined, `EndTurn` and `LeaveSession` drop grants as the hosts
do; `FanOut` and `FinishWorker` are what `fusion.delegate` does at the gate.
`noCalls` and `noFiles` are history: the calls a person said no to, and the
files with them, until the turn is over or the person spoke again. Left out:
path normalisation (all files lie in the one directory of the fan-out),
`readScopeGrants`, the approval ledger, the parsing of shell commands.

### ApprovalBridge

`EXTENDS ApprovalGate`. `post[r]` is where the bridge is with a request (awaiting
`sendMessage`, or in its map with the timer running; the `old` ones belong to a
bridge the channel has let go of), `chat[r]` what the message shows, `clicks` the
clicks on their way. Telegram is external: a message may be delivered although
its send is reported as failed, and an edit may fail. `bound` and `mine` are the
channel's subscriptions and its own turns: a session stays bound after its turn,
so the host's turns ask in the chat too. The answers at the host, aborts and
session switches of the gate do not tell the bridge anything.

### FallbackChain

One partition. `call[c]` is where call `c` is in `runWithFallback`: the link it
awaits and whether it is a probe. `override`, `announced`, `cause`, `served` and
`serving` are the fields of `partition-state.ts`; a breaker counts failures and
has two clocks, cooldown and probe throttle, which end by a step. Of the
breakers only those that `pickProvider` reads are kept: the primary of each
chain. A failure is what the chain tells apart: does it arm the cooldown at
once, and was it an outage or a refusal. `up` is external: which links answer.

### Compaction

A transcript is the sequence of its records, each with a number of its own (two
processes that add to the same row add different records: a record carries its time,
and two are assumed never to have the same hash). A stored session is its
transcript, the length its checkpoint covers (`base`) and the records its rolling
summary was made of, with the checkpoint it extends. `queue[s]` is the session's turn
queue, whose head holds the lock; `requests[s]` the manual request of a session,
`op[s]` the operation under way, `req[r]` what a caller knows of its request.
`BeforeStep` serves a request inside a turn or compacts by itself, `TurnCloses` hands
a request nobody served to the queue, `CompactionRuns` serves it there. `JobStarts`,
`JobAnswers` and `JobFails` are the background summary; an aborted job stays until its
call returns.

Every save replaces the whole row, checkpoint and summary included: the store merges
titles and statuses, nothing else (`session-store.ts:597-640`). So the row's other
writers are in the model. `mirror[s]` is the session a host shows; `HostSaves` is the
model stamp of the TUI or the last save of `run`, which puts back whatever the host
read last (`HostReads`). `away[s]` is what a turn of another process works on:
`beginTurn` refuses nobody, so `ForeignBegins`, its saves and its end may come at any
point of a turn, a compaction or a job here; `ForeignSummary` is that process's own
background job. Whether a history is worth compacting is a free choice, which covers
the retry rules. Two checkpoints over the same number of records are not told apart;
the code compares their texts as well, which only refuses more.

### ProcessLocks

A step is one file operation: `writeFileSync` opens (truncates) and writes in two
steps, reads and unlinks are apart. `at[p]` is where process `p` is in `acquire`,
`isLeader` or `release`, and on which file. A process that runs Telegram stands
by for a live owner of `telegram.lock`. A pid boots once; a pid the system gives
to a foreign program and a state directory that cannot be written are left out.

## 3. Runs

All bounds are constants of the modules or of the MC modules.

| Run | Instance | Shows |
|---|---|---|
| `turn_controller` | 2 sessions; 3 submissions on one, 1 on the other; any abort (225k states) | type, mutual exclusion and the busy set, FIFO order, hooks, safe collection of map entries, refinement of `SessionLock`; every submission settles unless a hanging body of its own session is ahead (one body may hang) |
| `turn_service` | 1 session, 2 turns, 2 messages, inbox of 1 (412k states) | windows are open only for turns that will drain them; messages stay in their turn; the result of a turn accounts for every message accepted for it; no bucket is left over |
| `session_store` | 2 processes with 2 starts each, 1 turn in either of them, 1 rename (1.4M states) | status and mark come and go together and a rename sticks, but for a write torn between its two statements; a boot ends every abandoned turn and no live one; a clean exit leaves no mark |
| `task_queue` | 2 processes, one of which restarts, 1 task, failing statements, fair (865k states) | one run per task, `running` rows have their run, outcomes and ends are safe; a due task is served while some process stays up, if the death of its runner is followed by a boot |
| `approval_gate` | a session and a worker of its fan-out; a write, the same again, a shell command on its file, a fan-out, the command by the worker; levels 1 and 4 (136k states) | a declined file stays closed, against level, grant, repetition and fan-out, and a declined call to all but the calls of a fan-out, for the rest of the turn and not longer |
| `approval_bridge` | 1 session driven from both sides, 2 requests no grant can silence (585k states) | the chat shows no decision that was not made; every prompt is decided unless the channel was stopped under a host's turn |
| `fallback_chain` | 3 links, 2 overlapping calls, threshold 2, 1 edit that removes a link (62k states) | a partition off its primary knows why and said so; the primary comes back when it stays up; every call ends |
| `compaction` | 2 sessions, 1 of them shared with a host and another process; 2 moves (turns, foreign turns or summaries, hosts' saves), 2 requests, 2 jobs in flight (442k states) | one request per session, true answers, background work yields, a stored summary fits the row it is in, nothing is written after shutdown, every request is answered |
| `process_locks` | 3 processes, 2 of which run Telegram, each boots once and may crash anywhere (376k states) | once calls stop colliding, somebody leads again and again, and two leaders are a passing state |

Three submissions on one session are the smallest case in which a waiter is
cancelled between two others; two starts of a process are the smallest case of a
reused pid; an inbox of one is full after one message; two calls, or two requests,
are the smallest overlap, and a third link is needed for a hop that is not the
first; three processes are a dead holder and two that race for its file. The moves
of `Compaction` share one bound, so that two of them come in every mixture: a turn and
the stale save of a host, a turn and an overlapping turn of the other process, two
turns. A summary that does not fit its row needs two: a job that starts on one
transcript and ends on another.
`TurnController` needs no larger instance: its safety is proved for all of them.
The type invariants of `SessionStore`, `ApprovalGate`, `ApprovalBridge`,
`FallbackChain`, `Compaction` and `ProcessLocks` are stated in the modules and
hold on the same instances; the configurations list only the properties that say
more than a type.

### Runs that show a disagreement

Each of these runs finds a counterexample to a sentence in the code's comments.
The findings in `PROJECT.json` quote the sentence.

| Run | What happens |
|---|---|
| `usage_misfiled` | the bucket is opened at submission: a message queued behind a running turn resets that turn's bucket, and the first turn to end takes it away |
| `steer_lost` | a turn that throws, or whose save throws, has no result: the message `steer()` accepted for it is drained and only counted in the log |
| `task_eager` | `create()` of a due task also drains the session's tasks that are scheduled for later |

More disagreements came up while modelling. They are in the models, and no property
rests on the sentences they contradict:

- events are routed by session id alone: work left over from a turn reaches the hook
  of the next one (`EmitLate`, `stray`), although `turn-controller.ts:25-28` says that
  events of a finished turn never leak into the next submission and `:187-188` that
  stale events never leak to the next one;
- a crash, or a failing statement, between `markCompleted` and `requeueRecurring`
  leaves a recurring task `completed` for good; the "atomically" of
  `task-runner.ts:893-896` covers only the second write. (A firing that is blocked or
  fails for good ends a schedule too, `task-runner.ts:670-673`; that is by design.)
- a worker that holds the directory of its fan-out repeats a declined shell command,
  since `shell.ts:236-248` and `fs-require-approval.ts:168-181` look at declined files
  only, while `approval-gate.ts:228-233` says that a worker's calls are refused over
  what the user declined on the parent's turn. `NoStands` names this exception;
- a host's stamp of the session it shows, or the last save of an overlapping turn of
  another process, puts an older row back: a checkpoint is undone or a summary gone
  with no newer checkpoint. `runtime/docs/compaction.md:57` says that the checkpoint
  stays fixed until the next successful compaction;
- `waitOrAbort` drops its listener one microtask before `run()` starts, so the
  queue misses an abort in that gap; the turn itself sees it at its first step;
- a save of another process that read the row before `finishTurn` and writes after
  it restores `running` without a mark, or undoes a rename (`TornWrite`;
  `session-store.ts:151` says that `save` never writes a live status). The next
  boot sweep ends it;
- interrupted attempts of a task count but are never checked against
  `maxAttempts`, so `attempts` passes it;
- two processes may give one task two sessions; the later one replaces the one in
  use;
- a stop of the Telegram channel cancels the timers of requests whose turn the host
  runs (`stranded`); `approval-bridge.ts:94-98` expects the caller's abort signal
  to end them, and none comes when only the channel is stopped;
- a click that overtakes the return of its `sendMessage` finds no entry in the
  bridge's map and is answered "already resolved"; the request waits on;
- `expireAll` denies without the `automatic` flag that the timer sets: what keeps it
  from being recorded as a person's no is only that its reason is not blank;
- the declined files of a session are a map from file to tool: a second decline by
  another tool replaces the first;
- with overlapping calls, a call that hops from the second link to the third after
  another one's probe brought the partition back announces "away" although no
  override is in force (`provider-fallback-chain.ts:265` says deeper hops stay
  silent);
- `acquire` creates the lock file and writes its pid in two operations, and a
  take-over of `telegram.lock` is not read back: two processes that start at the
  same moment may both poll the bot (`telegram-lockfile.ts:6-8`).

### Fairness

- `TurnController`: weak fairness of `Wake`, `Start`, `DropCancelled` (the event
  loop runs ready microtasks) and of `Finish` for bodies that are not in
  `Hanging`. Submitting, aborting and emitting are never forced.
- `ApprovalBridge`: weak fairness of the end of a send (the HTTP client has a
  timeout) and of the timer. Nobody has to click, answer or reconnect.
- `FallbackChain`: weak fairness of new calls, of the end of a call (answer, failure
  or abort) and of the two clocks; strong fairness of a probe that is answered,
  without which a primary that is up could refuse every probe for ever.
- `Compaction`: weak fairness of opening and leaving turns and of running and ending
  a compaction (all have deadlines); strong fairness of closing a turn, which
  compactions inside the turn interrupt again and again. Nothing in the background
  is forced.
- `ProcessLocks`: weak fairness of a call that was entered (it is synchronous) and
  strong fairness of the tick, which other calls of the process delay. Both
  properties assume that calls stop colliding (`<>[]Quiet`): ticks are seconds
  apart and a call takes microseconds, but nothing in the code forbids two
  processes to truncate each other's file at every tick.
- `TaskQueue`: weak fairness of the scheduler's tick and of the steps of a drain,
  per process that is up. Boots are not forced: `DueIsServed` assumes that some
  process is up for good and that the task is not orphaned for good (`Orphaned`: it
  is `running` under a process that is gone). Without the second assumption it does
  not hold and the code does not promise it: recovery runs at boot only, so a task
  whose process dies stays `running` until some process boots, even while another
  one is up. A run one of whose statements failed leaves its row `running` (`stuck`).

## 4. Proofs

Every invariant and every action property that a passing run checks is also a
theorem of the module's specification, for every value of its constants: any
number of sessions, processes, tasks, calls, links and turns, and any bounds.
The constants are restricted only by the named `ASSUME`s of the modules (types,
sentinels that are no members, a chain without duplicates, and, for the gate,
that two calls with one `callKey()` have the same tool, category and file).

| Proof module | Theorems |
|---|---|
| `TurnController_proofs` | `TypeCorrect`, `MutualExclusionHolds`, `FifoOrderHolds`, `HookIsolation`, `SafeCollection`, `Refinement` |
| `TurnService_proofs` | `SvcTypeCorrect`, `WindowsAreLive`, `SteersStay`, `BucketsAreReleased`, `ResultsAccount`, `ServiceImplementsController` |
| `TaskQueue_proofs` | `QueueTypeCorrect`, `OneRunAtATime`, `RunningIsReal`, `OutcomesAreOwn`, `EndsStand` |
| `SessionStore_proofs` | `StoreTypeCorrect`, `StatusFollowsMark`, `RenamesStick`, `ExitsAreClean`, `SweepsAreExact` |
| `ApprovalGate_proofs` | `GateTypeCorrect`, `NoesStand`, `RefusalsHaveANo` |
| `ApprovalBridge_proofs` | `BridgeTypeCorrect`, `ChatIsTrue`, `NoesStandOverTelegram`, `RefusalsHaveANoOverTelegram` |
| `FallbackChain_proofs` | `FallbackTypeCorrect`, `AwayIsExplained` |
| `Compaction_proofs` | `CompactionTypeCorrect`, `OneRequestAtATime`, `AnswersAreTrue`, `BackgroundWorkYields`, `SummariesFit`, `StoppedIsQuiet` |

Each module first proves that its inductive invariant (`ChainInv`, `SvcInv`, ...)
holds in every reachable state, one lemma per action, and derives the rest from
it. TLC finds each of these invariants true on the instances of section 3 as well.

### TurnController

None of the invariants is inductive alone: that a submission may start depends
on one promise, the one it found in the map, while the claim is about all
submissions before it. `ChainInv` closes the gap. Submissions of a session form
a line by ticket (`TicketInv`); each awaits its direct predecessor in that line
or arrived when all before it was over (`PrevInv`); the resolved promises are
those of calls that are over, and with a submission at the front everything
before it is resolved (`PrefixInv`); the map entry is the last of the line and
unresolved, and no entry means that all is resolved (`TailInv`). The lemma
`SettledPrefix` is the heart: the awaited promise has settled, so by `PrevInv`
and `PrefixInv` everything ahead has. It is used in `Wake`, and in
`DropCancelled`, which is where an early release would break it. The refinement
follows because `Start` needs exactly `PrefixInv` to be an `Own` step.

### TurnService

A step of the service is a step of the controller or leaves the queue alone
(`ServiceImplementsController`), so `ChainInv` and with it mutual exclusion carry
over. On top, `SvcInv` says that a turn inside the loop is running, that a pending
message names the turn that is in the loop of its session (`PendingInv`) and that
an unsubmitted turn has reported nothing (`FreshInv`). Mutual exclusion is what
makes `SteersStay` true: whoever drains the inbox is the one turn that runs, and
that is the turn the message was accepted for. Without it, a turn queued behind
could find a message left by the first. `ResultsAccount` follows from `PendingInv`
too: a turn that returns has closed its window in the same step as its last drain, so
nothing it accepted is still pending.

### TaskQueue

The writes of a run are guarded by the row's status alone, so nothing in a write
says that it belongs to the run that makes it. `QueueInv` says why it does: between
the claim and the last write the row carries the mark of that process, that start
and that claim (`MarkInv`), and is `running` or has come to an end that nobody
revives (`StatusInv`). Two processes in one run would both have to be the row's
mark. Recovery is the delicate case: it takes rows of processes that are gone, and
by `LifeInv` a process that is gone is in no run.

### SessionStore

The properties are about single steps but hold only from reachable states. `StoreInv`
keeps what a step needs: a mark is not younger than the process it names, the mark
of a live process is the one that process remembers, an operator's stamp never
stands on an empty title, a write that finishes a turn carries an ended status.
`TornWrite`, another process writing between the two statements, is the one
exception the theorems name, as there is no transaction in the code.

### ApprovalGate and ApprovalBridge

The gate keeps keys and pairs of file and tool; the properties speak of the noes a
person said: `NoStands` closes a declined file to every call that runs unasked, the
ones a worker makes inside its scope included, and a declined call to all but those.
`GateInv` says that records and noes are the same: every no that counts is in
the records, and every record stands for one. Because a fan-out lifts the noes of
its directory, the invariant also says that a fan-out which must ask was answered
by a person. With Telegram beside the gate, every step of the bridge either leaves
the gate's variables alone or is one of its actions, so both theorems carry over;
`ChatIsTrue` rests on outcomes being final: every step that changes one finds it new
or pending.

### FallbackChain

`OffPrimaryIsExplained` is inductive together with the types and the fact that the
chain in use is the configured one or an edit of it. The work is in the chain: in a
sequence without duplicates what is below a link is what follows its place, so a call
that advances stays on links of the chain, whatever edits and other calls did to it.

### Compaction

`CompInv` says who is where. An unanswered request is exactly the entry of its
session (`Entries`), which is why `OneRequestAtATime` holds although `settle()` may
be called for one request by its abort, its run and the queue. A request is in its
session's queue at most once, and then is unanswered and queued, or was told to stop
(`WaitAt`); so a record that is settled again later is never the one at the head or
under way. An operation runs inside the open turn for a request that was not queued,
or at the head of the queue for one that was (`OpAt`), and after a shutdown has been
told to stop. Background calls are live only while no turn is open, nothing is under
way and no request is queued (`YieldInv`); the last conjunct is needed because `CompactionRuns` does not cancel jobs: it relies
on `Compact` having done so when the request was queued.

`SummariesFit` needs a second invariant, as the job's check before its save looks at
one record only, the boundary's hash, while the claim is about all records below it.
`RowInv` speaks of everything held of a session: the row, the copy of the turn here,
the host's, the one of the other process, and what its jobs were given. Any two of
these transcripts that have the same record at one place agree on all records before
it (`Agree`), and no record is newer than the last number given out (`Coherent`); this
is kept because a turn adds a new number to what it read, and every save only moves a
held state to another place. So an unchanged boundary means unchanged records up to
it, and the summary may be stored with the row it finds. Each held row also has a
summary that extends its own checkpoint (`Fits`). No lock is used in this argument:
it holds although hosts and other processes write at any time.

### Only model-checked

- Liveness: `EverySubmissionSettles`, `DueIsServed`,
  `PromptIsDecided`, `PrimaryComesBack`, `EveryCallEnds`, `RequestIsAnswered`,
  `SomeoneLeads`, `OverlapEnds`. Fairness and `ENABLED` are outside the prover's reach.
- `ProcessLocks`, whose properties are both liveness properties. Mutual exclusion of
  the lock files is not a property of this code: two processes that take over the
  file of a dead one at once may both proceed, and `OverlapEnds` says that this
  passes.
- The three violations (`usage_misfiled`, `steer_lost`, `task_eager`) are counterexamples and need
  no proof.

## 5. Plan

1. Proofs: what the liveness properties rest on, as invariants: a submission that
   waits has an unfinished predecessor, a queued request has someone to hand it the
   lock, a call of the fallback chain only moves down.
2. `Shutdown`: turns in flight, task runner, scheduler and stores in the order of
   `runtime-lifecycle.ts`, composed with `SessionStore`.
3. `BatchExecutor` and the recovery state machine of a turn.
4. The MCP manager and the local daemon's life cycle; the slot manager.

## 6. Not modelled

Text (prompts, transcripts, titles, parsing), tokens and prices, provider wire
formats, the contents of tools, memory extraction, rendering, configuration and
telemetry. These are most of the repository: of its 340,000 lines, the terminal UI,
the local-model screens and catalogs, the CLI handlers, the providers, the schema of
the configuration and the memory's text heuristics make up the largest files, and
what they do is I/O, layout and data conversion, in which a model checker has no
steps to interleave. The share of the code that the map covers is therefore small
and will stay so; what is covered is the part where order, failure and concurrency
decide.

Of the modelled components: import of foreign rows (`insertMissing`), retention,
read-only lists, databases without owner columns, fusion worker turns beyond their
approvals, shell jobs, reports of tasks, back-off delays and calendar arithmetic,
read-scope grants and the approval ledger, pairing and media of the channels, the
Discord and swarm channels (the Discord lock and bridge repeat the Telegram code),
recycled pids and an unwritable state directory in the lock files.

Stateful and left for later: the MCP manager (connect, reconnect, close), the start
and adoption of the local daemon, the slot manager, the order of a shutdown, the
batch executor, the bitemporal profile store.

## 7. Running

    tlc -workers 2 -config MCTurnController.cfg MCTurnController
    tlapm TurnController_proofs.tla
    tlapm Compaction_proofs.tla

Every run of `PROJECT.json` is a pair of a module and a configuration. Deadlock
checking is off where the model may stop because all work is done and all bounds
are used up, as the program may sit idle; the approval and fallback models always
have a step to take and are checked for deadlock.
