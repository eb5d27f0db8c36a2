# Aira: a TLA+ verification project

Aira is a coding agent built on the Pi platform, which is in the same repository.
Its own logic lives in `src/packages/coding-agent/src/aira/` (paths below are
relative to that directory unless they begin with `src/`). It adds to the agent
loop a goal runtime that works towards an objective in bounded rounds, an
independent verifier that judges the change set, and an orchestration of child
agents. Below it are the agent and its loop (`src/packages/agent`), the session
that drives them (`src/packages/coding-agent/src/core/agent-session.ts`), and the
server and client that share live sessions between processes
(`src/packages/server`, `src/packages/client`). All of these are asynchronous
handlers over shared objects, with every `await` a point at which anything else
may run, and they are the subject of this project.

The project holds nine specifications and one abstract specification, their TLC
instances, and eight modules of proofs checked by TLAPS. Section 1 is the inventory
of the system, 2 the plan, 3 the modules, 4 the runs, 5 the proofs, 6 what the
checks disagree with, 7 what is not modelled.

## 1. Inventory

### How the parts are wired

`src/packages/coding-agent/src/core/agent-session.ts` (548-720) builds the
managers of a session: intelligence, workspace ownership, execution, browser,
verification, orchestration, tasks, goal, interaction, permissions. They share
`AiraState`, in which each publishes a snapshot. The agent's events (`turn_start`,
`tool_execution_end`, `agent_end`) reach them through `subscribe`; the host awaits
the `agent_end` listeners one after the other, verification's automatic run before
the goal's boundary. `dispose` (1394-1450) takes them down in turn and waits for
none of their suspended handlers.

| component | state | operations | hard behaviour |
|---|---|---|---|
| batch scheduler (`orchestration/scheduler.ts`) | dependency listeners, completed / failed / settled, a semaphore's counter and queue | `prepareAiraSchedule`, `runAiraScheduler` | interleaved continuations, abort at any await, counting |
| orchestration manager (`orchestration/manager.ts`) | run records, per-run controllers, active batches, history | `schedule`, `executeRun`, `cancel`, `dispose` | a run cancelled before, during or after its launch; two books (records and scheduler) that must agree |
| child runner (`orchestration/runner.ts`, roles, envelopes) | tool budget, deadline, envelope | one child agent run | deadline against a tool that cannot be interrupted |
| verification (`verification/manager.ts`) | `inFlight`, `lastChangeFiles`, the current result, the run scope | `verify`, `onAgentEnd`, `runVerification`, the completion fence, `refreshStaleness` | flags tested before an await and used after it; files written meanwhile |
| verifier and evidence (`verification/verifier.ts`, `evidence.ts`, ...) | none | one verdict | deadline, unreadable answers |
| workspace ownership (`workspace/ownership.ts`) | per-file fingerprint and ownership, pending mutations, generation | `beginGoal`, `recordMutation`, `classify` | concurrent classifications, late captures |
| goal runtime (`goal/manager.ts`, `state-machine.ts`, `usage.ts`) | the goal object, the last consumed result, no-progress observation, pending continuation | create, stop, resume, cancel, clear, the boundaries of `agent_end` and of the task graph, questions, recover | a boundary holds a goal object over three awaits while the user changes it |
| goal persistence (`goal/persistence.ts`) | one file per session | save, load, clear | crash and restart |
| task graph (`tasks/manager.ts`) | rows with dependencies, derived blocked states, child rows | create, patch, settle, observe runs | partial patches, cycles, the row limit |
| execution runtime (`execution/manager.ts`) | processes, output, ports | start, stop, poll | timeouts, process trees |
| permissions (`permissions/`), interaction (`interaction/`) | pending requests and questions | ask, answer, cancel | abort against a late answer |
| browser (`browser/`) | external process, checks | start, check, stop | lifecycle |
| intelligence, context compaction, modes, state, UI, commands, project, migration | snapshots and text | | none that the runtimes read for control |
| agent and agent loop (`src/packages/agent/src/agent.ts`, `agent-loop.ts`) | transcript, steering and follow-up queues, the active run, the loop's own context | `prompt`, `continue`, `steer`, `followUp`, `abort`; one run: inject, stream, execute tools, poll | concurrent tools, messages that arrive between two polls, abort half way through a batch, a listener that throws |
| agent session (`src/packages/coding-agent/src/core/agent-session.ts`) | append-only log, retry count, flags of the run | `prompt`, automatic retry, overflow recovery, compaction, `abort` | two books (log and transcript) of which one is rebuilt from the other; messages queued during backoff or compaction |
| server handshake and snapshots (`src/packages/server/src/server.ts`, `snapshots.ts`) | stage of each connection, revision, broadcast queue | `accept`, `finishHandshake`, `broadcast`, `failProtocol`, `close` | broadcasts during a handshake; a revision taken before the read it stands for |
| live sessions (`src/packages/server/src/sessions.ts`) | `liveSessions`, `openingSessions`, connections and operations of each | `acquire`, `create`, `attach`, `detach`, operations, `terminate`, `maybeDispose`, `close` | opening, disposal and loss of connections cross each other |
| session leases (`src/packages/client/src/client.ts`) | lease counts, exclusive owner, generations, cleanup flags, pending requests | `createSession`, `acquireSession`, `detach`, `dispose` | requests in flight when the connection goes; retries of a failed detach |
| other Pi packages (`ai`, `tui`, `protocol`, `telemetry`, storage) | | | I/O and encoding |

What makes the core correct, per component:

* scheduler: a task starts only above completed dependencies; a failure reaches
  every dependent; no wakeup and no notification is lost; the limit holds; an
  abort stops launches; the batch returns.
* orchestration manager: records, controllers and snapshot agree with the
  scheduler and with each other; outcomes are truthful and final; a cancelled run
  is not launched; a cancelled batch drains.
* verification: one run at a time; no duplicate of a current result; a result
  published as fresh is about the files on disk; every edit makes it stale; a run
  always ends.
* goal: rounds are bounded; stopped, cleared and terminal goals stay so; nothing
  runs after a restart before the user acts; no goal stays in `verifying`; completion
  rests on fresh evidence; the file follows the session.
* agent and session: a submitted message is in one place until it is answered; what
  is sent to the model is the transcript, with the results after their calls; one
  steering message per turn; an abort is final; every run settles.
* snapshots: the hello comes first and once; a client's copy only moves forward
  through states the server was in; it catches up.
* live sessions: one runtime per durable session, not disposed while it is used,
  given back when it is not; only attached connections are served, and every
  attached one is.
* leases: exclusive means alone; the count is the number of leases; nothing stays
  attached without a lease, and nothing is detached under one; acquisitions end.

The hazards behind these properties are listed one by one, with their lines, in
`PROJECT.json`.

## 2. Plan

Done, in this order (most important behaviour first):

1. `AiraScheduler` and its proofs.
2. `AiraOrchestration`, which composes the manager with the scheduler, and the
   proof that it implements it.
3. `AiraVerification` and its proofs.
4. `AiraGoal` and its proofs.
5. `PiSnapshots` with the abstract `PiMirror`, the refinement checked and proved.
6. `PiSessions` and its proofs.
7. `PiLeases` and its proofs.
8. `PiAgentLoop` and `PiAgentSession`, the session composed with the agent it drives,
   and its proofs.

Every invariant and action property that a passing run checks is also a theorem.

To come:

9. `AiraTasks` (hazard at `tasks/manager.ts:186`), `AiraWorkspaceOwnership` as the
   detailed form of `own` in `AiraVerification` (`workspace/ownership.ts:179`),
   `AiraGoal` with `AiraVerification` instead of a free verification.
10. Several batches and the history limit (`orchestration/manager.ts:613`), the
    runner's tool budget and deadline, the cycle search of `prepareAiraSchedule`.
11. Execution runtime, permissions with interaction, browser lifecycle.

## 3. The modules and the code

JavaScript runs one continuation at a time. In every module an action is the
whole synchronous segment between two awaits of one handler, so all concurrency
is the order in which the segments run, and a variable named `phase`, `stage`,
`pc` says which await a handler is suspended in. The mapping of each definition
to its lines is in `PROJECT.json`. Definitions under a comment that begins with
`Mutant:` are deliberately broken variants of the definition that follows; no
specification uses them, and they serve to show that each property can fail.

### AiraScheduler

One call of `runAiraScheduler` over a batch that `prepareAiraSchedule` accepted.
`Accepted` is the set of graphs it lets through (known ids, no cycle), taken as a
definition: the depth-first search itself is not modelled. `phase` has the eight
control points of `runOne`; `Start` is `tasks.map(runOne)`; `NotifiedPhase` and
`NotifiedAwaiting` are what `notify` does to the listeners; `Acquire`,
`ReleasedCount`, `ReleasedWaiters` and `ReleasedPhase` are the semaphore, with
both decrements of the `finally` block; `Finish` is every way `options.execute`
settles. `FirstRoundOver` is the one fact of microtask order that is used: the
continuations queued by the first round run before any continuation of `acquire`.

### AiraOrchestration

Extends the scheduler by the manager's callbacks and by `executeRun`: each action
is a scheduler step with the callback it runs, or a segment of `executeRun`.
`Outcomes` is how the runner returns: a child may also be cancelled by its provider,
with no signal aborted. `StatusOf` is the failure classification (an aborted signal
wins over the runner's own report, but not over a result the child returned),
`Published` the snapshot.
`cancelAsked` is a history variable, read by one property and no action.
`ImplementsScheduler` is the refinement: the manager's variables are forgotten and
every step is a scheduler step or a stutter.

### AiraVerification

`call[c]` is the suspended call of each caller: `"auto"` is the run of `agent_end`,
`Explicit` the callers of `verify()`. A revision is a function from paths to
mtimes, which is what `computeRevisionId` hashes; a hash collision is left out.
`ToolWrites` and `ToolEditEnds` are apart because the file is on disk before the
event arrives. `ExternalChange` is everything that writes without the tools.
Ownership is seen as verification uses it: `own[f]` says whether the goal owns the
file, whether its fingerprint has since changed (`drifted`), and whether a
classification has protected it; `beginGoal`, `recordMutation` and `classify` are
steps on it. `SeamReturns` includes the case of a git failure, in which the seam
answers with nothing. Whether `agent_end` runs a verification at all (settings,
work done, triviality) is a free choice in `EvaluateAuto`. `refreshStaleness` has
a tolerance of mtimes, so `RefreshStaleness` may also not happen.

### AiraGoal

A boundary is a handler that holds the number of a goal object while it awaits a
verification, a test run, a second verification or the continuation. The objects
stay in `goals` after the session has dropped them (`cur` is `this.goal`), which
is what the closures do. `Outcome` is one run of a handler to its next await: the
object, the await, whether the goal was persisted, and
`previousFailObservation`. `Table` is `AIRA_GOAL_TRANSITIONS`. Token, time and
no-progress decisions are free choices where the code takes them, except the round
bound, which is exact. `Restart` is a crash or an orderly end at any point
followed by `recover`. Each of the three sources has at most one suspended
boundary, a bound of the model. `resumed` is a history variable: it is set by every
command, and by the end of a question that a waiting goal takes for its own.

### PiMirror and PiSnapshots

`PiMirror` is the promise: the server's state moves on, and a client takes over
states the server is or was in, under revisions that never go back. `PiSnapshots`
is the protocol. A snapshot is a revision and a content; the content is the version
of the session list at the moment `listSessions()` is read, which is later than the
moment the revision is taken. `hs[c].at` is the await of `finishHandshake`, `cast`
the one `performBroadcast` that runs, `queued` the others, `chan[c]` the frames on
their way, which a loss of the connection discards. The order in which a broadcast
goes through its connections is left open. A client that reconnects starts with an
empty state and is another connection. Every read may fail: in a broadcast the
revision stays taken and nothing is sent (`BroadcastFails`), in a handshake the
connection is failed (`GetRejects`). A change whose handler fails is announced by
nobody (`Change(FALSE)`). A client takes an error in place of its hello for the
server's refusal, and one that comes later for a violation of the protocol
(`Ending`). `missed` is a history variable: a change was not announced to the client,
its broadcast failed or was skipped, and nothing was read for it since.
`ImplementsMirror` is the refinement, with `mirror` as the copy.

### PiSessions

One durable session id. `live` holds every `LiveSession` object made for it, because
code that awaited keeps the object it had; `current` is the one in the map.
`req[r].at` is the await of each command in execution. `MaybeDispose` is the
synchronous part of `maybeDispose`, called wherever the code calls it. One fact of
microtask order is used, `Resumed`: requests that awaited a disposal resume before
the service, which is asked by the first of them, answers. Joiners of an opening
attach in the turn in which it resolves, the opener first. The runtime and the
service are environment: they settle, fail or report an error at any time.

### PiLeases

One session id as a client sees it. A lease is one call of `acquireSession` or
`createSession` and the handle it returns; the promises that are shared in the code
(attach, detach, cleanup) are shared here. `pending` is `#pendingRequests`, from which
a response takes its request and which a lost connection rejects as a whole. Frames
come in chunks of any size, and `due` holds the promises that a chunk has settled:
their continuations run one by one after the chunk, while further frames are handled,
the connection fails or the application calls in between. The server is the command of
`sessions.ts` it answers with, and may attach and still answer with an error. Two
history variables name what the books cannot survive: `strayed`, a lease was made
after the invalidation that was meant for it, and `late`, what the server has attached
it attached under an error. A new generation clears the first, an answered detach or
the end of the connection the second.

### PiAgentLoop and PiAgentSession

`PiAgentLoop` is `Agent` and `runLoop`: `run` says where the loop is, `context` is
its own copy of the messages beside the agent's `transcript`, `batch` holds the tool
calls of an answer, which run one after the other or concurrently. The provider
answers with any stop reason, tools and hooks end in any way and, where a budget
allows, throw; `Throw`, `RecordFailure` and `Reject` are the failure path of
`runWithLifecycle`. An answer that fails or is aborted keeps the tool calls that were
streamed, and they are not executed. `PiAgentSession` extends it by the session: `host[m]` is where
the `prompt()` call of each message is, from its preflight to the loop of
`_runAgentPrompt`; `log` is the session manager's branch and `BuildSessionContext`
the transcript compaction makes from it. `listed` are the session's own lists of
queued messages, which `clearQueue()` gives back and which lose a message when the run
announces it, later than the agent's queues do. `prompt()` calls overlap as they like
before their runs, and messages are queued with and without a run. Where the cut falls depends on token
counts, so it is any of the code's valid cut points. The budgets in `limits` bound a
behaviour and are fixed at its start. `steered` counts the steering messages of the
turn and begins at zero with each run. It is a history variable, as are `torn` (a batch
was cut short), `gone` (refused or lost messages), `overlap` (a call started its run
before another had settled) and `crossed` (a call changed the transcript under another
one's run). The check of the queues at the end of `_handlePostAgentRun` and the
settling that follows it are one step; in the code two turns of the microtask queue
are between them.

## 4. The runs

| run | instance | distinct states | checks |
|---|---|---|---|
| `orchestration` | 3 tasks, 1 slot, every accepted graph | 49 thousand | `DependenciesCompleteFirst`, `FailurePropagates`, `NoLostWakeup`, `RecordsMatchScheduler`, `TruthfulOutcome`, `NoLaunchAfterAbort`, `SettledIsFinal`, and under `OFairSpec` `CancelDrains`, `BatchReturns` |
| `verification` | 1 file, automatic and one explicit caller, 2 changes, 2 verdicts | 842 thousand | `SingleFlight`, `NoDuplicateVerification`, `PublishedFreshIsAccurate`, `ToolEditStales`, and `FlightEnds` under `FairSpec` |
| `goal` | 2 goals, 2 rounds, 1 result | 754 thousand | `RoundsBounded`, `RecoveredNeedsUser`, `OrphansStopped`, `TerminalIsFinal`, and `VerifyingEnds` under `FairSpec` |
| `pi_snapshots` | 2 connections, 2 changes | 1.4 million | `HelloFirst`, `ImplementsMirror`, and `CatchesUp` under `FairSpec` |
| `pi_sessions` | 2 connections, 2 commands, 2 openings | 205 thousand | `SingleRuntime`, `NotDisposedInUse`, `OnlyAttachedServed`, and `AbandonedEnds` under `FairSpec` |
| `pi_leases` | 3 leases, 2 frames in flight, any chunks | 643 thousand | `ExclusiveIsAlone`, `CountIsLeases`, `NothingLeaked`, `NotDetachedUnder`, and `AcquisitionEnds` under `FairSpec` |
| `pi_agent_session` | nine budgets (`MCPiAgentSession`) | 1.2 million | `ResultsFollowCalls`, `CallsAnswered`, `OneSteeringPerTurn`, `RequestSeesTranscript`, `NothingLost`, `NotStranded`, `StaysStopped`, `NoToolAfterAbort`, and `Settles` under `SFairSpec` |
| `scheduler_bound`, `verification_moved`, `goal_fresh`, `pi_sessions_attach`, `pi_session_continue` | | | a counterexample each, see section 6 |

Why the bounds are enough. Three tasks over one slot give a running, a queued and a
dependent run at once, and a chain, a fork and a join; the scheduler's properties are
also proved, so there the instance only guards the statement; the safety properties
were also checked with four tasks over two slots (3.2 million states). For
verification two
changes let one fall in the verifier's await and one in the fence; the run in which a
change set moves from one file to another, `verification_moved`, has two files. For
the goal two rounds reach the bound from below and from the limit, and two goals let
a boundary hold a goal that was replaced. For the snapshots two changes let one fall
between the read of a handshake and the broadcast of the other. Two connections and
two commands of `pi_sessions` are the least with an opener and a joiner, or an
operation and a detach; its second opening follows a disposal, and the safety
properties were also checked with three (2.8 million states). Three leases are
two shared ones, one of them being released, while a third is acquired; two frames in
flight let a response and an event, or a response and the loss of the connection, come
in one chunk. The budgets of
`pi_agent_session` each have one subject: two steering messages beside a prompt; a
batch of two tool calls with steering, compaction and aborts; transient errors, a
cancelled retry and an overflow recovery; a listener that throws, without and with
tools running; two prompts that overlap, with compaction, with tools,
with retries and with a throw. `MaxClock`, `MaxGoals`, `MaxResults`, `MaxWorld`, `MaxLive`,
`MaxInbox`, `MaxCalls` and the budgets are bounds of the
instances; `MaxRounds`, `MaxConcurrency` and `maxRetries` are settings. No run uses
symmetry, since every passing one checks liveness.

Deadlock is checked in every run but those of `PiAgentSession`, which may stop when
the budget of messages is used up and the session is idle. The ends of the other
systems are explicit stuttering steps (`Terminating`, `Stopped`), so any other stop
would be reported.

Fairness. The event loop runs every queued continuation, hence weak fairness of
the handlers' continuations. The child runner and the verifier race against a
deadline (`createAiraRunDeadline`), so their awaits end. That `resolveRuntime`,
the verification's `runtime`, git and the continuation prompt settle is an
assumption about the host; the code gives them no deadline of their own. In the Pi
modules the service, the runtime, the provider, the tools and the transport are
assumed to settle what was asked of them, with success or failure, and a frame that
was sent arrives or its connection is lost. `Settles` needs no more than that
because retries, recoveries and messages are bounded. Nothing is assumed of the
user, of the agent, of changes to files, of commands or of connections being lost.

## 5. The proofs

TLAPS checks these for every value of the constants.

`AiraSchedulerProofs`, from `TaskAssumption` (the batch is finite and not empty)
and `MaxAssumption` (the limit is positive): `TypeCorrect`, `DependencyOrder`,
`FailurePropagation`, `WakeupsKept`, `NotificationsKept`, `AbortStopsLaunches`,
`IndependentBound`. None of the properties is inductive alone. `Inv` adds

* `SettledInv`: `settled` is the disjoint union of `completed` and `failed`, and
  exactly the tasks that are done, without which a failed dependency could look
  completed;
* `DependencyInv`: at each control point past `waitForDependencies` all
  dependencies are completed. `completed` only grows, which is why the answer is
  still right when the task is launched;
* `QueueInv`: the queue holds exactly the tasks suspended in `acquire`, once each,
  needed for what a release does;
* `SlotInv`: the counter is never above the number of holders. With the counter
  at the limit when a task queues, there are that many holders, and a release
  with a waiter hands its slot on. That is why no wakeup is lost although the
  counter runs low.

`IndependentInv` strengthens `Inv` for a batch without edges: as long as somebody
may still call `acquire`, nobody has released, so the counter is exact.

`AiraVerificationProofs`, from `ExplicitAssumption` (the automatic caller is not
one of the explicit ones), `VerdictAssumption` and `ClockAssumption`:
`VTypeCorrect`, `SingleFlightHolds`, `PublishedFresh`, `NoDuplicate`,
`ToolEditsStale`, for any number of callers, files and changes. `Inv` adds to the
types

* `RecordInv`: the calls and the result are well formed, and a call in the fence
  has a verdict;
* `FlightInv`: two calls past `runVerification`'s own test are the same call, and
  `inFlight` and the status say whether there is one;
* `ScopeInv`: a tool writes only in a running agent, a running agent of a live
  session has its scope open, and `agent_end` is pending exactly while the
  automatic call is.

The argument is by moves: `Moves(c, r)` says that one record changes, and a move
within the run (`MovesCruise`), into it (`MovesTakeOff`) or out of it
(`MovesLand`) preserves `FlightInv`. `PublishedFresh` and `NoDuplicate` then look
only at the steps in which the flight begins or ends (`FlightSteps`).

`AiraOrchestrationProofs`, from the scheduler's assumptions: `OTypeCorrect`,
`ManagerImplementsScheduler` (the refinement `ImplementsScheduler`, from which
`ManagerDependencyOrder` follows), `RecordsAgree`, `OutcomesTruthful`,
`ControllersAgree`, `SnapshotIsFresh`, `SettledFinal`. `OInv` joins the scheduler's
`Inv` with

* `StageInv`: where `executeRun` is, `runOne` is;
* `StatusInv`: the status of the record in each stage of `executeRun`, so that what
  the scheduler is told on resumption is what the record says;
* `CauseInv`: nothing aborts a batch before it was dispatched, and a promise that
  resolved to false has a failed dependency, which is what makes outcomes truthful.

`PiSnapshotsProofs`, from `MaxWorldType`, for every set of connections:
`STypeCorrect`, `SnapshotsImplementMirror`, `HelloComesFirst`. The refinement rests
on `PastInv`: every content that was read, is in a channel or was taken over is one
the world has had. `HelloFirst` rests on `StageInv` (before its hello nothing was
sent to a connection, and it is neither ready nor on a broadcast's list) and
`FramesInv` (a hello is at most at the head of a channel, and found there by a
client that waits for it); `RefusedInv` says that an error is on its way, or has been
taken, only where the server is letting the connection go.

`PiSessionsProofs`, from `ConnType`, `ReqType` (finitely many commands at once) and
`MaxLiveType`: `LTypeCorrect`, `OneRuntime`, `DisposalWaits`, `ServedAreAttached`.
`LInv` adds

* `ReqInv`: requests point to objects that exist, and those an opening will resume
  await it;
* `RuntimeInv`: at most one object is undisposed, and while there is one nothing is
  being opened and nobody lags behind an earlier disposal. The last part is where
  `Resumed` is needed: a request that resumed late would open a second runtime;
* `OpsInv`: the operation count of an object is the number of requests in execution
  on it, without which a decrement could reach zero under another operation.

Most steps change one object gently (`Gentle`: its operations stay, and its
disposal begins only if it has none or the server closes), and one lemma,
`QuietKeeps`, covers them all.

`AiraGoalProofs`, from `BoundsAssumption` and `RoundsAssumption` (the bound on the
rounds is positive), for any number of goals and results: `Rounds`, `Orphans`,
`Recovery`, `TerminalFinal`, and `NeverStuck`, the part of "never a stuck state" that
is not about liveness: a goal in `verifying` is held by a boundary that still awaits its
verdict. `GInv` adds to the types

* `FileInv`: the file never lags behind a terminal status of the goal it names. Without
  it a restart could read back a status that the session had left, and `TerminalIsFinal`
  is about restarts too;
* `HandlerInv`: boundaries hold goals that were created, and the boundary of
  `agent_end` is over before another agent run starts;
* `FreshInv`: the goals to come are idle.

The argument goes through `Good(s, o)`, what an `Outcome` may do to a goal that was in
status s when the boundary resumed: it is shown once for each await and kind of
verdict, and `Write` then carries it to the goals, the file and the orphans.

`PiLeasesProofs`, from `LeaseConstants` (finitely many leases), for any number of
disconnections and any division of the frames into chunks: `Counts`, `Exclusive`,
`NotDetached`, `NoLeak`. `LInv` adds to the types

* `Unique` and `Awaited`: no promise is made twice before it is resumed, and who awaits
  one awaits one that will be. These are why a continuation finds the leases it was
  started for, also when several are due;
* `UpInv`: while the client is connected the reservations are `Accounted` for, a
  detachment is under way only under leases that wait for it, and a cleanup that is due
  holds up every lease (`Ordered`);
* `DownInv`: after a disconnection the acquisitions it left behind all fail and none of
  them releases more than there is, or what is left is the session whose creation was
  answered just before it;
* `Cut`, `KnownInv`: nothing is on its way without a connection, and before the session
  has an id there is at most the call that creates it.

`UpInv` and `DownInv` are about generations without a stray lease, and so are the
properties; a stray lease can only be made while `~up`, which the proof of `DownInv`
shows case by case. `NoLeak` needs `ServedInv` besides: what the server has attached is
answered for by a reservation, a cleanup that is due or a creation (`Answered`), and
requests, frames and promises follow each other in order (`Wire`), so that a response
that empties the server is handled before what is asked after it. It is stated for
`~strayed`; that `NothingLeaked` also holds with a stray lease is model-checked.

`PiAgentSessionProofs`, from the assumptions on the budgets, for transcripts, batches
and queues of any length, every budget and any number of overlapping `prompt()` calls:
`Types`, `Stopped`, `Steering`, `NoLateTool`, `OneRun`, `Stranded`, `Seen`, `Together`,
`ResultsInOrder`, `AllAnswered`, `NoneLost`. None has a hypothesis besides; what an
overlap does to the properties is in their statements (`overlap`, `crossed`). The
invariants are

* `SteerInv`: which polls of a turn can still find a steering message, and that `skip`
  is set only when one was already taken;
* `HostInv`: one call at most has the run (`RunInv`); while no runs overlap, one call is
  past its preflight, and after its run there is an answer for it to look at
  (`AloneInv`), which is why it comes to look at the queues;
* `SeenInv`: by how much `context` and `transcript` differ at each point of the loop.
  They are equal when a request is made;
* `FollowInv`, `BatchInv`, `AnswerInv`: every result in the transcript and in the log
  follows its answer, the end of both is the answer under way with its results so far,
  and until a batch is cut short every call of an answer that is replayed, but those,
  has its result. A compaction replaces the transcript by a summary and a suffix of the
  log, so the statements have to hold of both and to survive a shift (`Shift`); the
  valid cut points never fall between an answer and its results. These and `SeenInv`
  hold while `~crossed`;
* `InboxInv`, `OnceInv`, `PlaceInv`, `ListInv`: a run holds messages only where it hands
  them on, a message is at most once in a queue, in one place from its submission on
  unless it was given back, and what is queued is on the session's lists, so that
  `clearQueue()` gives back all that it clears. `OccurrencesOnce` connects them with the
  counts in `NothingLost`. Each step is one of a few moves (from the head of a queue to
  the log, from a queue to the run, from the log to the summary, ...), with a lemma for
  each.

Only model-checked: the liveness properties (`CancelDrains`, `BatchReturns`,
`FlightEnds`, `VerifyingEnds`, `CatchesUp`, `AbandonedEnds`, `AcquisitionEnds`,
`Settles`), which are out of the prover's reach and hold of the instances of section 4.
The graphs that `prepareAiraSchedule` accepts are a definition in the proofs as in the
model.

## 6. Where the code and its documents disagree

Each is a run that TLC ends with a counterexample; the quotations are in
`PROJECT.json`.

* `scheduler_bound`: `runOne`'s `finally` decrements `runningCount` and so does
  `release()`. Every finished run leaves the counter one too low,
  and dependents released later exceed `maxParallel`. Batches without edges are
  not affected (`IndependentBound`).
* `verification_moved`: `lastChangeFiles` is overwritten when a run begins. If that
  run fails, the earlier result is kept, and the next `agent_end` compares the
  change set with the failed run's files; a moved change set leaves the result
  fresh.
* `goal_fresh`: `freshVerificationResult` does not look at `stale`, so a stale PASS
  completes a goal.
* `pi_sessions_attach`: two connections open a session at once and the first one goes
  before it is open. Its `attach()` begins the disposal, the second attaches to the
  object nevertheless, is told so, and every command of it is refused until the
  session is opened anew.
* `pi_session_continue`: a transient error stays in the log when its retry removes it
  from the transcript. If the retry overflows, the compaction brings both errors
  back, only the last is removed, and `agent.continue()` throws.

Observations made while modelling that no run is kept for:

* `cancel(runId)` of a queued run finds no controller and does nothing; the run is
  launched later (`orchestration/manager.ts:522`);
* a boundary that outlives `/goal clear` persists its goal again
  (`goal/manager.ts:658`);
* a broadcast without ready connections is skipped and takes no revision, so a client
  whose handshake had read the sessions before the change compares equal revisions
  afterwards and is not told until the next change
  (`src/packages/server/src/snapshots.ts:54`). A broadcast whose read fails is reported
  and not tried again (`56`), and a session created under a failing snapshot, or
  disposed with an error, is not announced (`src/packages/server/src/sessions.ts:62`,
  `71`). `CatchesUp` excepts the clients this happens to (`missed`);
* a connected client that is sent `hello_error`, because it sent a second hello or a
  frame that cannot be decoded, or because its catch-up failed, reports "Unexpected
  handshake message" instead of the server's error
  (`src/packages/client/src/connection.ts:199`); `HelloFirst` says that this comes only
  with the end of the connection;
* if `runtime.snapshot()` fails after `attach()` (`src/packages/server/src/sessions.ts:71`)
  the client gets an error and stays attached at the server until it detaches or goes;
  `NothingLeaked` excepts it (`late`);
* if the response to an attach request and the frame after which the connection fails
  come in one chunk, the lease is made after the invalidation and takes the new
  generation (`src/packages/client/src/client.ts:210`): after a reconnection it is valid
  and not counted, an exclusive lease is granted beside it, and another lease's release
  detaches under it. The lease properties except such a generation (`strayed`). The same
  with `createSession` leaves an exclusive reservation without a connection, which
  nobody can release until the next disconnection;
* a child whose provider reports `aborted` is recorded as cancelled although nobody
  cancelled it (`orchestration/runner.ts:450`); `TruthfulOutcome` therefore does not say
  that a cancelled run was asked to stop;
* `prompt()` calls that pass the `isStreaming` check before either runs
  (`src/packages/coding-agent/src/modes/rpc/rpc-mode.ts:398` awaits none). While the
  first runs, the second is refused by the agent, and its `finally` block declares the
  session settled (`src/packages/coding-agent/src/core/agent-session.ts:1950`); a later
  one runs during the first one's backoff or compaction, takes its
  `_lastAssistantMessage`, withdraws its abort request, and its transcript is replaced
  under it. `NotStranded`, `RequestSeesTranscript`, `ResultsFollowCalls` and
  `CallsAnswered` except this (`overlap`, `crossed`), and `StaysStopped` speaks of the
  time until the next `prompt()`;
* `clearQueue()` returns the session's lists (`agent-session.ts:2505`), on which a
  message stays until the run announces it (`1164`): one that the loop has drained and
  not yet begun is given back to the editor and sent all the same. `NothingLost` says
  that it is sent once and is in no queue. Custom messages are in the agent's queues and
  on no list, so `clearQueue()` drops them;
* `steer()` and `followUp()` do not ask whether a run is active (`2286`): what is queued
  after the session has settled waits for the next run;
* a failed or aborted answer keeps its streamed tool calls
  (`src/packages/ai/src/api/transform-messages.ts:189` leaves the whole answer out of
  later requests), so `CallsAnswered` speaks of answers that are replayed;
* `abortRetry()` with a queued message: the retry is cancelled, but the session goes
  on with the queue (`src/packages/coding-agent/src/core/agent-session.ts:1994`);
  `StaysStopped` therefore speaks of `abort()`;
* the fence lists files, awaits the classification and reads mtimes afterwards, so
  a file that becomes changed in between is missed (`verification/manager.ts:483`);
  `PublishedFreshIsAccurate` therefore speaks of the verified files only;
* a file that was verified as deleted makes the result stale at the first
  `status()` (`verification/manager.ts:279`);
* `dispose()` during the await of the runtime does not keep the verifier from being
  launched afterwards (`verification/manager.ts:436`);
* a PASS published for an earlier goal completes a new one that has not consumed it
  (`goal/manager.ts:1093`);
* a boundary whose goal was stopped or cancelled meanwhile may assert a forbidden
  transition and throw (`goal/manager.ts:910`, `972`), and so does `/goal cancel`
  of a budget-limited goal (`494`); both change no status;
* a goal that was recovered while it waited for a question is resumed when any permission
  question of the new session ends, also by a timeout (`goal/manager.ts:370`);
* `waitingInteraction` outlives a resume and decides later which wait an answer
  ends (`goal/manager.ts:354`);
* `/goal resume` may start a boundary and a repair at once, hence two continuations
  (`goal/manager.ts:468-476`). `RoundsBounded` still holds.

## 7. Not modelled

* Text: prompts, envelopes, evidence bodies, parsing of verdicts, promotion
  heuristics, compaction, formatting of snapshots. Where control depends on them
  the model makes a free choice.
* I/O of processes, browsers, language servers and git, beyond the fact that it
  settles with success or failure.
* A torn write of the goal file (`writeFileSync` truncates first): the model
  persists atomically.
* The limit on the number of files of a change set, the event buffers and the
  history bound of the orchestration, listeners that throw.
* Concurrent `classify` calls, and the baseline that `beginGoal` captures in the
  background (`workspace/ownership.ts:272`): each is one step. Status and line counts in
  `computeRevisionId`: here they change only with the file.
* `shouldStopAfterTurn` of the loop, which the coding agent does not set.
* Of the agent session: manual `compact()`, branches and branch summaries, custom,
  bash and next-turn messages, model and tool changes, extensions' hooks other than
  that they may throw, a listener that throws before the message is persisted, and
  tools of a concurrent batch that outlive a failed run.
* `session_removed` events, which the server never sends, and two session ids in one
  connection: the maps are keyed by id and share nothing.
* What `packages/agent/src/harness` will be: several of its operations throw "is not
  implemented yet".
* Task graph, execution, permissions, interaction, browser: planned (section 2).
  The goal sees the task graph through `TasksSettle` and questions through
  `QuestionOpens`, `QuestionAnswered` and `QuestionClosed`.
* The other Pi packages: providers, wire encoding, terminal, telemetry, storage.
