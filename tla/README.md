# Verification of skharness

TLA+ modules, TLC runs and TLAPS proofs kept beside skharness. Paths below are
relative to `src/skharness/` of the repository unless they start with `docs/`,
`scripts/` or `tests/`. `PROJECT.json` maps every definition to the lines it
translates, every run to its properties and every property to a mutant that
breaks it.

## 1. The system

skharness holds two programs and a laboratory they share.

* **skcode-hostd** (`daemon.py`, `serve.py`, `manager.py`, `pool.py`,
  `harnesses/`, `control.py`, `activity.py`): a daemon that runs coding agents
  in tmux sessions and lets paired clients observe and steer them.
* the **autocode engine** (`autocode/`): takes cards from a board, runs a coding
  agent on each in a sandboxed worktree, grades the result and lands it.
* the **Evolution Arena** (`arena/`): runs agent experiments, and bounded teams
  of subagents ("swarms"), under a trusted controller.

### Inventory

| component | state it keeps | operations | talks to | what is hard | what makes it correct |
|---|---|---|---|---|---|
| swarm scheduling authority, `arena/swarm_control.py` | contracts, leases, receipts, authorizations, usage deliveries, ledger; one checkpoint file | register, admit, heartbeat, charge, observe, complete, cancel, reap, acknowledge, recover | orchestrator threads, Atlas owner | methods that raise after changing memory; rebuild from a checkpoint; late usage | ledger bound, exactly-once charging, nothing terminal undone by a restart, phases in order |
| team budget and contracts, `arena/swarm.py` | reserved and settled usage | reserve, settle | scheduler | concurrent reservations against one ceiling | never overbooks |
| swarm orchestrator, worker runtime and completion gate, `arena/swarm_orchestrator.py`, `swarm_pi.py`, `swarm_verifier.py` | futures, late futures, results, receipts, cancellation tokens, the A2A journal | run a plan phase by phase, execute, stop, evaluate | scheduler, runner, Atlas owner, verifier | leases that run out while a worker returns; two stops of one worker; workers that hang | authorized only if complete, an acknowledged stop is quiet, every run reports |
| command journal, `control.py` | append-only command and receipt rows under a file lock | submit, record, claim, pending, expire | hostd route, owners | crashes inside and between appends; several processes | one terminal receipt, at most one actuation |
| hostd control route, `daemon.py` | HTTP requests in flight | submit, check, apply, record | journal, sessions | awaits between journal calls, replays | every accepted command is answered |
| swarm control owners, `arena/atlas_control.py` | polling thread | process_once, start, stop | journal, scheduler | two owners; stop while commands arrive | final sweep, no stale claim |
| attempt controller, lease scheduler, runner and orphan pass, `arena/controller.py`, `scheduler.py`, `runner.py`, `autocode/sandbox_lifecycle.py` | lease of each attempt, durable events, threads, containers | propose, admit, running, finish_run, cancel, heartbeat, reclaim, execute, reconcile | store, Docker | check-then-act over three locks; cancel racing exit; inventory older than removals | one launch per attempt, a terminal event for every run, live runs spared |
| event and artifact store, job service, `arena/store.py`, `operations.py` | hash-chained segment, blobs, job ledger | append, read, put, run | controller | a writer killed in the middle of a row; writers that read before they lock | an acknowledged event stays, artifacts are whole |
| refinement journal and memory adapter, `arena/collaboration.py`, `memory_adapter.py` | append-only proposals and events; an external memory | propose, canary, approve, authorize, promote, roll back | memory service | adapters that die between mutation and receipt | memory changes only under approval, once, and can be restored |
| collaboration access, `arena/access.py` | owners, grants, inboxes | bind, grant, revoke, send, reproduce, mutate | lease scheduler | a lease ends, a grant is revoked between check and act | after a lease ended only calls that had passed their check take effect; one owner for each attempt |
| verification, `arena/verifier.py`, `metrics.py` | controls, trials, verdict | verify, pareto_frontier | verifier backend | backends that raise; a rule broken in one trial only | "valid" is earned, failure is inconclusive |
| activity rail, `activity.py`, stream of `daemon.py` | one bounded file and head file per node, cursors | publish, trim, read, tail, read_fleet | hostd, runner, clients | readers behind the trim, publisher dies between writes | acknowledged is durable, gaps are announced |
| hostd sessions, `daemon.py`, `harnesses/claude_code.py` | tmux windows, what the harness remembers, decision record | dispatch, inject, deny, cancel, archive | clients, tmux | calls overtaken while the body is read; restarts; archivers and tmux commands that fail | every turn was authorized, a stop leaves a transcript |
| activity supervisor and session archive, `daemon.py`, `session_events.py` | pumps, job signatures, bounded archive | supervise, pump, announce, append, read_page | rail, sessions | failing publishes, cancelled pumps | events reach the rail without holes |
| worker pool and autoscaler, `pool.py`, `autoscale_policy.py` | members, drained, results | spawn, scale, drain, destroy, observe, evaluate, execute, place | harness, scheduler | calls that raise half-way, tmux commands that fail, observations older than the act | drained means stopped with a record, growth within headroom |
| autocode cycle, `autocode/orchestrator.py`, `engineering.py`, `journal.py`, `ci.py`, ... | board, run journal, worktrees, pull requests, wallet rows | assess, triage, build, gate, settle, merge, report, clean up, resume | sandbox, GitHub, board, wallet | death at any step, calls of git, gh and the journals whose failure nobody looks at, a peer that claims, an operator who stops | merged only through the gates, paid once, reported, nothing forgotten |
| epics and decisions, `autocode/orchestrator.py`, `digest.py`, `resolver.py`, `grounding.py` | children on the board, decision store, numbered manifest | split, stage, release, queue, render, answer, expire | board, operator | a split cut half-way; a reply to a renumbered digest | split once, a reply lands on what was shown |
| cost ledgers, wallet, agent-run bridge, `autocode/autopilot_cost.py`, `joules.py`, `agentrun_bridge.py`, `*_correction.py` | cost rows, settlement journal, cap sentinels, wallet journal and snapshot | dispatch, record, alert, settle, correct | wallet, agents | several processes, lock timeouts, midnight, reads, writes and alerts that fail | overshoot bounded, second mints accounted for, no update lost |
| change deploy, `autocode/change_deploy_bridge.py` | change record, arms, pull request | dispatch, arm, merge, deploy, fail | skcoord, capauth, GitHub | pushes and takeovers between the steps | what is merged was validated and seen by two |
| work grading, `autocode/grading.py`, `sensitivity.py`, `sovereignty.py`, `buckets.py`, `grader_pin.py`, `adapters/base.py` | grade on the card, health window | assess, second opinion, stamp, route, examine | models, card authors | cards edited during a pass, replies that advise their own zone | zones by rule, examiner pinned, the ungated executor only where it was asked for |
| adapters, command lines, views, sandbox launch | none, or a foreign program's | | | text and processes | not modelled |

## 2. Modules

| module | stands for |
|---|---|
| `SwarmBudget` | `TeamBudgetLedger` and usage arithmetic of `arena/swarm.py` |
| `SwarmControl` | `SwarmScheduler` with its checkpoint, crash and recovery; extends `SwarmBudget` |
| `SwarmGate`, `SwarmRun` | what a worker's result is worth and the completion gate; one run of `TrustedSwarmOrchestrator` with worker threads and the Atlas owner, over the gate |
| `CommandMailbox` | abstract: what the control plane promises of one command |
| `ControlPlane` | composition of `ControlJournal`, the hostd route and the swarm owners; implements `CommandMailbox` |
| `ArenaAttempt` | composition of `ArenaController`, `LeaseScheduler`, runner, supervisor and the orphan pass |
| `ArenaStore` | event segment, artifacts and records, job ledger |
| `ArenaRefinement`, `ArenaAccess`, `ArenaVerdict` | refinement journal with the memory adapter; collaboration access; verification and Pareto frontier |
| `AutocodeGate`, `AutocodeRun` | the decisions between a build and a merge; one node's `run_once` with its worker threads, crashes and resumed runs, over the gate |
| `DecisionDigest`, `AutocodeEpics` | the operator's decisions; splitting of epics, which queues decisions |
| `ActivityRail`, `HostSessions`, `HostFeeds`, `WorkerPool` | the parts of skcode-hostd |
| `JouleWallet`, `CostLedger`, `ChangeDeploy`, `WorkGrading` | wallet settlement; dispatches under the daily cap; deploy dispatches; grades and routing |
| `RunningTotals` | the loops that add up a ledger row by row, used by wallet and costs |
| `MC*` | constants, model sets, lanes and symmetries of the TLC runs |
| `*_proofs` | theorems and the inductive invariants they rest on |

### SwarmControl and SwarmBudget

Every public method of `SwarmScheduler` holds one lock and is one action. The
model keeps the memory and the checkpoint (`disk`) apart: `_persist` is the last
thing most methods do, but `admit` may expire leases and return without it, and
`observe_terminal_usage` may raise after it has replaced the ledger.
`_expire_locked`, the settlement loops and `_rebuild_ledger` are part of the
actions that call them; the rebuild is a closed form over the position at which
it is refused, so that it can be reasoned about without recursion.

Abstractions: tokens, tool calls and cost are one dimension `units` beside
`wall` (each is summed and compared alone, so one stands for all); a write scope
is a set of paths; a contract has one lease because `lease_id` is a field of the
contract; the evidence of a result is present; the clock is monotonic; a write
of the checkpoint that fails and is survived is not modelled.

### SwarmRun and SwarmGate

`pc` is the orchestrator's place in the phase loop (admit, poll, reap, stop,
settle, record, drain, check, gate, sweep), `stage` a worker thread's place
between its reads of the cancellation token, `stops` the calls of `stop` that
the orchestrator and Atlas have under way. A method of the scheduler and a step
under the runtime's lock are atomic. Of the scheduler the run depends on the
state of a lease, whether a stop is owed (`owed`) and whether time is up
(`due`); `SwarmControl` has the rest. Hashes are the objects they identify, so
that a lineage hash is the receipts it was computed from. The role-count table
of the topology policy and the launch arguments are left out.

### ControlPlane and CommandMailbox

A journal operation holds the exclusive file lock and is one step; the awaits
of the route and the gaps between an owner's calls are where others run. A crash
may cut an operation between or inside its appends, which leaves an unfinished
`tail` that the next append must cut off. A row is a command with its latest
receipt. Authentication and policy decide before `submit` and are left out; a
short write is not modelled (an append is whole, unfinished by a crash, or
fails). `HandlerExclusive` is assumed: no target is served both by a
`control_handler` and by a polling owner. No composition in the repository
passes a handler; without the assumption both could act on one command.

### ArenaAttempt

A delivery is one call of `execute`; `pc` names its place between the critical
sections of controller, scheduler and supervisor. `lock` is a cancellation that
holds `_transition_lock` while it stops the worker: `state()` and `_append`
wait for it (`LockFree`), the scheduler does not. The event log is `state`, the
only thing with the containers (`box`) that survives a `Crash`.

Abstractions: an attempt asks for one slot of one resource dimension; a
delivery has at most one lease, which names its Docker group, as the run-id
label does; runner and supervisor belong to one attempt, as
`scripts/qualify-pi-swarm.py` builds them, so the first and only pass of a
supervisor is due; an append is atomic and succeeds; the start of the Docker
client and the creation of the container are one step; verification of
provisional results is another component; a repeated cancel that changes
nothing is left out (`CancelMatters`). Expiry happens at any time. A group
passes the grace at any time except while a pass is between its inventory and
its removals, because the pass judges ages by the clock it reads right after
the inventory (with `orphan_grace_s` positive; the default is 900 s).

### AutocodeRun and AutocodeGate

One invocation of `run_once` at a time: `phase` is its place, a card in flight
has a worker thread (`step`) that goes through claim, worktree, rounds, gate or
salvage, finalize, settlement, pull request and merge, in the order of the two
executors. Memory (`mem`), the run journal file and its snapshot, board,
branches, pull request, wallet rows and the session registry are apart, so that
a `Crash` keeps what is on disk; the next invocation resumes the run id or takes
a new one. A peer node claims cards, the operator uses the kill switch. What a
round observes is a "world" of the gate (CI kind and run, measured lines,
score, promise), chosen from `RoundWorlds`. `TwinGatePassed`, `Salvage`,
`ChecksVerdict` and `MergeMethod` are pure operators. What `gh` reports of a
request is the set of buckets seen when the poll ended, `cancel` and `skipping`
included; the carve-out looks at the diff of the local branch, as the code does.

Up to `MaxFaults` calls fail. Where the code looks at no result the worker goes
on and `build.lost` remembers what is missing: a push or commit, the diff of the
carve-out (an empty list of files), the record of the success. `ghost.cut` counts
the settlements whose row was lost or whose look into the journal failed open.
Where the code raises, a step of its own says what the exception leaves:
`FinalizeRaises` between the steps of finalize, which has one for each of its
effects, and `RunRaises` in the build. The orchestrator reports the former; the
latter ends a sequential loop at once, while with several workers the others come
to their ends first (`Abort`). A `_record_attempt` that
fails is not modelled (there is then no memory to be forgotten). Prompts, parsing
of coverage reports and the one-shot commands (revert, ratify) are left out.

### DecisionDigest and AutocodeEpics

The decision store, the numbered manifest with its generation, the digests the
operator has been shown, and the resolver's file operations are separate steps;
a resolver may be cut between them. A triage run grounds, assesses and splits an
epic child by child, so that a run that dies leaves some children; humans add
children and rename them meanwhile. A title is a word and a spelling.
Deep-dive proposals are left out.

### ActivityRail, HostSessions, HostFeeds, WorkerPool

The rail: a publish is one step under the exclusive lock, with faults that kill
the publisher between its writes (row, head file, trim). The stream reads a
batch and looks at the retention window in separate steps, as `activity_stream`
does; `read_fleet` merges by time stamp, so the clock is a variable. Sessions: a
route is atomic but for the await that reads its body; tmux windows outlive the
daemon, `spawned`, `resume` and `refusals` do not. `inject` actuates before it
writes its decision, and the daemon may die in between (`InjectCut`; such turns
are `unlogged`). The archive of a window is list, capture, persist and kill, by
another process; the results of the tmux commands are not looked at, so that a
capture that fails is an empty text (`unread`) and a kill that fails counts as
done. That a `respawn-pane` fails, which leaves a recorded turn that never
began, is not modelled. Feeds: a publish is not undone when its pump is
cancelled. A session is read from its transcript file or, `Scraped`, from the
visible screen: then only the last `Screen` lines can be read, and a pump that
starts again cannot go back to what has left it. Pool: scale, drain and destroy
go through the members in order, oldest first, and any call may meet `Trouble`:
it raises, or tmux does not list, capture or kill the pane; the model chooses
the place. `execute` suspends once, while the evidence of a scale-down is
recorded. Text formats, the other harness adapters, event schemas and the
read-only routes are left out.

### ArenaStore, ArenaRefinement, ArenaAccess, ArenaVerdict

The segment: a writer reads sequence and prior hash first and appends under the
lock, where it reads again; a kill leaves a part of a row, or (constant
`NewlineLost`) all of it but the newline. A row's hash is the row. `put_spec`
and the merge of several segments are left out. Jobs: a kill may cut the ledger
write anywhere, also before the newline only; nothing repairs the file's end, so
that the next row continues the unfinished line (`tail`). Refinement: every transition of
the journal is one step; an adapter is read, mutate, record, and dies between
any two; the memory service deduplicates by key (external). Access: the look at
the lease and what follows it are separate steps of `send`, of `reproduce` and
`mutate` and of `bind`; leases end and are given again at any time, by the rules
of `LeaseScheduler`. Verification: three controls, then the trials, each may raise; the frontier is
compared with its definition for every three candidates over the values.

### JouleWallet, CostLedger, ChangeDeploy, WorkGrading

Wallet: open, mint, spend and save of a settlement are separate steps; a
settlement that waits too long for the lock goes on without it; the wallet
itself is external. The correction recognises a fixture's mint by its card and
its time; that a real card has the fixture's name and was settled before the
cutoff, the risk `wallet_correction.py:88-97` accepts, is assumed away (`Ask`
lets a `Namesake` settle only once `guarded`). Costs: a dispatch is read cap,
run, record, alert, mark, check, mint and settle, in several processes, under a
lease for each card; the day may change anywhere. Up to `MaxMishaps` times a
ledger or journal cannot be read or written or an alert is not sent, and the
dispatch goes on. The orchestrator's builds add rows to the same ledger (actions
of the lane `engine`) under a `CapLedger` that each of its runs begins at zero.
A ledger row is taken for a test's by the prefix of its run id, which the
bridge's own runs of a card with the fixture's name also have. Deploys: what a
dispatch has seen is kept apart from the record, the arms and the pull request,
which change between its steps; a dispatch may die and its `_fail` event may be
lost. Grading: a pass works with the card it read, people edit it meanwhile; whether
a text matches a pattern is "hot" or "plain".

## 3. Runs

Modules that share no state are checked in one run. The `MC` module then has a
variable `lane`, chosen in the initial state, and a behaviour follows the module
of its lane while the others stay in their initial state; an instance is as
thorough as with a run for each. Properties that are about one subject are
stated as one conjunction of named parts; each part has its own comment in its
module.

| run | bounds | properties |
|---|---|---|
| `control_recovery` | 2 concurrent contracts, roomy team, 2 clock ticks, crash anywhere | `MemoryAndDiskAgree` (ledger and leases agree, every checkpoint recovers), `NothingIsUndone` (terminal stays terminal, stop requests, usage evidence and cancellations are kept) |
| `control_tight` | 2 contracts whose reservations exceed the team, overages, 1 usage delivery | `TypeOK`, `LedgerWithinTeam` although a settlement or rebuild is refused half way, `ChargedExactlyOnce` across retries and crashes |
| `control_phases` | 2 builders and a dependent tester, 2 commits, shared write scopes | `PhasesHold`: the tester starts only on completed, receipted predecessors on one commit; overlapping writers are never active together |
| `swarm_run` | scout and tester in parallel, then a builder; 1 Atlas cancellation; the tester may hang; every kind of attestation | `AuthorizedMeansComplete`, `StopsAndResultsAreTrue` (an acknowledged stop is quiet, a result agrees with the end of its lease, nothing is inferred for a scout, a clean report leaves nothing running, one result for a child in the A2A journal), `RunReports` |
| `plane_crash` | 2 requests, 1 owner, 2 keys, 2 contents, crashes | `MailboxSpec` (refinement), `ActuatedAtMostOnce`, `ReceiptsAreHonest`, `JournalIsSound` (keys unique, rows whole) |
| `plane_owners` | 1 request, 2 owners, every kind | `TakenBeforeExpiry`, `FinalSweep`, `EveryCommandSettles` |
| `arena_runs` | 2 attempts, 2 deliveries, 1 slot, 1 crash | `AtMostOneLaunch`, `EndedIsTerminal`, `CancellationWins`, `LiveRunsSpared` |
| `autocode_cycle` | lanes: cycle (2 cards, one of them ungated, 2 invocations, 1 or 2 workers, 2 rounds, peer; one disturbance in a behaviour: a crash, the kill switch or, with one worker, a failing call (`OneDisturbance`), and after a crash an invocation of everything that is left, undisturbed by peer and fleet (`QuietAfterCrash`); checks in every bucket), split (2 epics over 2 triages, 1 death), answer (2 decisions, 2 digests, 1 cut); deadlock | `AutopilotIsSound` (built under a claim, minted once but for lost or unread journal rows, recorded once, overshoot bounded, reported, passed work kept unless the push failed or was refused), `MergedOnlyThroughGates`, `NothingForgotten`, `BoardIsSound` (split once, budget, built after release, parked with its children, refusals reach the operator, answered once), `AnswersWhatWasShown` |
| `host` | lanes: stream, fleet (2 nodes, retention 2), sessions and archiver (1 session, a foreign window, 3 callers, 2 calls, 1 restart), feeds and screen (a session read from its file, one from the screen), archive (cap 3), pool and troubled (3 panes, ceiling 2, calls that raise; tmux commands that fail), placement | `RailIsHonest`, `SessionsAreGuarded`, `FeedsAreWhole`, `PoolIsSound`, `RefusedStaysRefused`, `HostDelivers` |
| `records` | lanes: segment (2 writers, 4 rows, 2 kills), artifacts, jobs (3 jobs, 2 kills), refine (2 proposals, 2 adapters, 1 death), access (2 agents, 2 leases of an attempt, 2 calls), verify (3 trials), frontier (3 candidates, 2 objectives, values 0 to 2), wallet (2 settlers, one may hang), bridge, midnight and engine (3 dispatches of 2 cards, 2 workers, cap 2, price 2, 2 builds of the orchestrator, 1 mishap), change (2 dispatches, 2 heads, 1 fault), grading, quality | `StoreIsWhole`, `RefinementIsGoverned`, `AccessFollowsLeases`, `VerdictIsFair`, `WalletIsExact`, `CostIsBounded`, `DeployIsChecked`, `GradingIsRuled`, `RecordsSettle` |
| `autocode_head` (violation) | one card, one worker, no crash and no failing call | finding 1 |
| `store_newline` (violation) | the segment with `NewlineLost` | finding 2 |

Why the bounds are enough. The interactions are between two parties: two
leases sharing a budget, two holders of one command, two deliveries of one
attempt, a pass and its victim, two adapters of one proposal, a dispatch and a
push. Each run has two of every party that competes and one resource they
compete for, a clock that passes the shortest deadline after everything else has
happened once, and at least one crash where persistence is the question. The
theorems of section 5 remove the bounds for the properties they name.
`control_tight` needs the clock for expiry only, one tick; `control_recovery`
has two, so that a lease admitted after an expiry can expire too. Four events
with a retention of two let the trim overtake a reader twice; two crossings of
the cap need three dispatches; three values and three candidates contain every
order of dominance without tolerance; an archive of six rows with a cap of three
and pages of two is walked while it is trimmed.

Deadlock is checked in the swarm scheduler's runs and in `autocode_cycle`, whose
autopilot may only rest between two invocations (`AtRest`). The others stop when
their requests, deliveries, dispatches or events are used up, so that they do
not check it; the liveness properties take its place where something could wait
for itself.

**Fairness.** Nobody has to submit, stop, crash or push.

* `plane_owners`: weak fairness of each request's next step (the event loop of
  hostd runs it on), of each owner's next step (its thread polls until it is
  stopped) and of the clock, for `EveryCommandSettles`.
* `swarm_run`: of the orchestrator's thread, of worker threads that do not hang,
  of leases running out and of a stop returning (the drain has a timeout), for
  `RunReports`.
* `host`: of the stream's read and send, of the supervisor's loop and of each
  pump, for `HostDelivers`. A client that reconnects right after each gap for
  ever is excluded by the bound on faults.
* `records`: weak fairness of settlers that do not hang and of dispatched
  deploys (their calls have timeouts). That an authorized promotion comes to be
  recorded is not claimed: nothing in the repository calls the adapter again.

## 4. Findings

1. `autocode_head`: `_commit_and_push` pushes without force and ignores the
   result, while a later attempt restarts the local branch. When a salvaged
   attempt left the branch on the remote, the push is refused, the open pull
   request is found again and the merge is bound to the old head: an ungraded
   commit is merged after another tree passed the gate.
2. `store_newline`: `append_event` reads the segment before it repairs it. A row
   of which only the newline is missing is counted and then cut off; the next
   event names a sequence and hash that are gone and every later read raises.

Disagreements between code and documentation, and windows the code leaves open,
met while modelling and without a run of their own:

*Swarm scheduler, orchestrator and control plane*

* `_rebuild_ledger` (`arena/swarm_control.py:954`) replays ended leases at full
  reservation in `lease_id` order; in a team that does not cover every planned
  reservation, a history accepted in its own order is refused on recovery
  (`docs/architecture/evolution-arena.md:352`).
* `observe_terminal_usage` (`swarm_control.py:493`): late usage of a child whose
  released budget was reserved again makes the rebuild fail after the ledger was
  replaced; usage evidence stays in memory and is never persisted.
* a charge after a within-budget terminal observation, or a terminal result
  before a late overage, writes a checkpoint `recover` rejects. The orchestrator
  does not call in that order and the runs leave it out. A checkpoint write that
  fails and is survived (`swarm_control.py:837`) leaves memory ahead of disk.
* a swarm run never reports when a worker hangs whose lease was cancelled by
  Atlas, or expired inside `complete`, `charge` or `admit`: `Stuck` in
  `SwarmRun`. A failed append to the A2A journal raises out of `run` with leases
  active and nothing swept. When Atlas acknowledges a stop first, the sweep
  reports a false "not quiescent".
* the hostd route records QUEUED a second time (`daemon.py:829`); an owner that
  claimed in between makes it raise, and an accepted command is answered with a
  server error (`docs/architecture/live-agent-observation-and-control.md:149`).
* command row and first receipt are two appends (`control.py:311`); a failure
  between them leaves a command on which every later `pending()` raises. A short
  write (`control.py:458`) is not noticed. A controller that dies between claim
  and record (`arena/atlas_control.py:109`) leaves the command applying for good.
* the route applies a session command whose expiry passed while it awaited.

*Arena*

* a supervisor composed without `active_run_ids` (`arena/runner.py:275`,
  `scripts/qualify-pi-swarm.py:1532`) declares an empty inventory authoritative,
  so that a launch removes a running sibling older than the grace; the theorem
  on live runs assumes `Declares`.
* a cancellation between the last stop check and the creation of the container
  (`runner.py:417`) records CANCELLED while the worker runs on to its timeout.
  `execute` raises out of a failed collection (`runner.py:987`), and the attempt
  stays running; `reclaim_orphans` and `recover_incomplete` have no caller but
  the tests. `reclaim_orphans` drops the entry of a newer lease
  (`controller.py:234`). `read_all_events` orders by wall clock (`store.py:66`).
* a job-ledger row that was cut off swallows the row of the next job, although
  that one completed and returned: the ledger's end is not repaired
  (`operations.py:81` against "a completed invocation has a durable JSONL row",
  `:24`). `StoreIsWhole` bounds the loss to one row for each cut-off write.
* `put_artifact` names its temporary file by process only, so that two threads
  storing the same content can fail each other; `put_spec` writes in place, and
  a kill leaves a specification that every later `put_spec` refuses.
* a proposer that dies between its two appends leaves a proposal stuck; a torn
  last line makes the refinement journal unreadable for good; a memory service
  that does not answer `prior_content_hash` (`ReportsPrior = FALSE`) breaks the
  rollback after a promote that died.
* an attempt that is leased again can never be bound again, even by its owner; a
  call that passed its owner check still sends or builds after the lease has
  ended (`AccessFollowsLeases` bounds the harm to those calls).
* `pareto_frontier` with tolerances and three objectives can be empty, because
  dominance then has cycles. The run uses tolerance 0.

*skcode-hostd*

* `read_fleet` skips an event for good when a node's clock steps back across a
  page boundary; a stream that starts at cursor 0 loses trimmed events without
  a gap message; an unchecked short `os.write` acknowledges a lost event.
* a capture that fails is the empty text, which is persisted as the transcript
  before the window is killed (`harnesses/claude_code.py:500` against "a failure
  can never leave a stopped session with a lost transcript", `:479`); so do two
  concurrent archivers, or a cancel between list and capture. Output between
  capture and kill is in no transcript. The
  audit of an inject comes after its actuation, and a daemon that dies in between
  leaves a turn on no record. A restarted pump of a session that is read from the
  screen cannot read again what a failed publish lost and the screen no longer
  shows. Cancel and archive reach foreign windows. A restart forgets
  denials, and also what inject needs, so that an inject is refused. A dispatch
  that passed the brake before it was set still spawns.
* every viewer of a stream appends its own copy to the session archive, and
  without a viewer nothing is archived (`daemon.py`: "the one point every live
  event actually passes through"); a restart resets the sequence, so that the
  pages of two generations mix, and restarted pumps republish from the start. A
  job's signature is remembered before the publish (`daemon.py:362`), so that a
  publish that fails is not retried on the next interval as the comment says.
* pool: a `list-windows` that fails looks like no windows, so that an open pane
  is marked drained and never reached for again (`pool.py:223` against "either
  genuinely archived now, or already gone"); a `kill-window` that fails has the
  same effect. A drain by hand while a scale-down awaits its evidence makes the
  scale-down spawn panes; a window that does not open leaves a member without
  pane.

*Autocode*

* "a repo with no origin stays local", but the clean-up deletes tree and branch
  all the same; and when the push of a passed card fails or is refused nobody
  notices, the card is recorded finalized and the clean-up deletes the only
  copies (`engineering.py:861`, `cleanup.py:54`). `gh` may report the failure of a merge that happened (`engineering.py:1230`).
* the verdict on a request's checks is green when a core check exists and none
  failed or is pending, so cancelled and skipped ones count as passed
  (`engineering.py:1149` against "every discovered core CI check passed", `:1116`).
* `RunHandle._mutate` rewrites the whole run file without the swarm's lock
  (`journal.py:112`): with two workers it takes back a settled state, and the
  resumed run builds that card again ("a reopened journal skips
  finalized/escalated items", `:5`).
* a crash after the "escalated" entry and before the report keeps the decision
  from the operator: the resumed run skips the card.
* `_record_success` is best effort, and the failure memory is cleared all the same
  (`engineering.py:561`, `:600`). When git cannot name the changed files the
  carve-out sees none and a guarded change merges.
* two concurrent resolvers are both accepted, in spite of `AlreadyAnswered`
  (`resolver.py:21`); an answered decision that is queued again reopens; saving
  an old manifest undoes a rebuild. An epic whose split died half-way is skipped
  by later runs.
* a crash between the wallet's mint and `record_settlement` mints twice, and so do
  a settlement row whose write failed (swallowed, `autopilot_cost.py:455`) and a
  journal that cannot be read (`already_settled` fails open, `:422`); after a
  crash between row and snapshot, or a settlement without the lock, the journal
  can replay to a negative balance although it "remains authoritative". The
  correction's note on `corrected_balance` is wrong when a spend used fixture
  joules, which is only flagged. A settlement is journalled also when `settle()`
  recorded nothing, so that the card is never minted.
* two dispatches that cross the cap at once both alert ("once per day per
  kind"); the sentinel is set also when the alert failed (`autopilot_cost.py:685`),
  and then nobody is told that day; the orchestrator's cap is one for each run,
  so that its builds of a day are not bounded by the daily cap; the total after a run
  adds to the one read before it, so that concurrent runs may pass the cap
  without an alert; a paid run that raises in ratify or finalize has no row
  (`agentrun_bridge.py:394`), and the fail-closed cap never sees it. The
  correction of the ledger drops real rows of a card with the fixture's name
  (`ledger_correction.py:80`).
* "a stale verdict never deploys", but a push between the look at the head and
  `gh pr merge` merges a head nobody validated (`change_deploy_bridge.py:344`
  names no head; `moved` in `ChangeDeploy`).
* a death after "implementing", or a `_fail` event that cannot be appended
  (`change_deploy_bridge.py:315`), leaves the change there for good. `gh` may
  report the failure of a merge that happened. A failed deploy command leaves the pull request merged
  and the record failed. An arm is bound to no head.
* a stored work grade is "never recomputed per dispatch", but phase 0 recomputes
  and prefers the fresh one; a grade refused as non-sovereign still travels in
  the payload and routes the dispatch; a re-assessment that cannot be parsed
  falls back to the stored grade, whose zone is not ruled again
  (`orchestrator.py:630`): the zone is then that of the card's text when it was
  graded. With the operator's quality `none` a card goes to the gated executor and
  its tag `quality:direct` takes it off (`orchestrator.py:442` against "It can never
  weaken it", `:432`).

## 5. Proofs

All are checked by TLAPS for every value of the constants that satisfies the
named assumptions of the modules.

**SwarmControl_proofs**: `TypeCorrect` and `LedgerNeverOverbooks`. The invariant is
`TypeOK /\ LedgerWithinTeam /\ CheckpointWritten`: the bound on the ledger needs
the types, and the types after a recovery need that a process that is down left
a well-typed checkpoint. What an action computes is a ledger built by
reservations that passed `_check_available` and settlements that only lower a
reservation; the lemmas about `SwarmBudget` show that each such step keeps
consumption plus reservation within the team. Sums over contracts are
cardinalities of sets of pairs, so that adding and removing a reservation is a
fact about finite sets; this takes the place of an induction.

**SwarmRecovery_proofs** (over `SwarmControl_proofs`): what survives crashes and
restarts. Three invariants, each in the hypotheses it needs.
`GoodInv` needs none: in memory and in the checkpoint alike, a lease carries the
usage of the distinct deliveries to it (`Counted`), a result, receipt or
authorization exists only where the lease it belongs to has come that far
(`Owned`, `Phased`). It gives `DeliveriesChargedOnce` and
`DownstreamFollowsCompletion` for every team and every order of calls.
`RoomyInv` assumes `RoomyTeam`: the team budget covers the sum of the planned
reservations. The code does not enforce this, so it is a hypothesis of the
theorems and not an assumption of the module; without it the promises fail: late
usage of a child whose budget was reserved again makes `_rebuild_ledger` raise after
it has emptied the ledger (`control_tight` has such teams, section 4). Under it
the ledger of a running scheduler is exactly the one its leases imply
(`LedgerFollowsLeases`), which `PhasesAlwaysHold` and `NothingIsEverUndone` need: a
restart that rebuilds the ledger must reach the same leases. `OrderlyInv` also assumes `CallersAreOrderly`, the order in which
`TrustedSwarmOrchestrator` calls: a charge comes before the terminal observation of
its lease, and a terminal observation of a lease that has a result is within the
budget. `MemoryAndDiskAlwaysAgree` needs it, since `observe_terminal_usage` may
raise after it has replaced the ledger and before it writes; then memory and
checkpoint differ.

**ControlPlane_proofs**: `PlaneTypeCorrect`, `NeverActuatedTwice`,
`ReceiptsStayHonest`, `JournalStaysSound`, `NothingTakenLate`, `LastSweepSettles`
and `PlaneImplementsMailbox`, the last a refinement of
`CommandMailbox` with crashes and failed appends. The invariant says for each
command, request and owner what its place implies (`CommandOK`, `RequestOK`,
`OwnerOK`) and that a command being applied has one holder (`OneHolder`). The
assumption `HandlerExclusive` (a composition with a `control_handler` gives
owners no target) is needed: without it the route and an owner may hold the same
command. `JournalIsSound` is inductive with `PlaneInv` once every action is sorted
into those that leave rows alone, change one receipt and add one row (`JournalStep`).
`FinalSweep` needs `SweepInv`, which follows what was queued at `stop` through the
owner's rounds: until the last round has listed it, it is still ahead of it; while
the round works, it is on the list or settled.

**SwarmRun_proofs**: `AuthorityNeedsCompletion` and `StopsAndResultsStayTrue`, for
every plan, raw outcome of Pi, attestation, set of workers that may hang and
number of Atlas commands. Authority cannot be read off the gate alone: it looks at
results and receipts, and the theorem speaks of leases, scouts and owed stops.
The parts of `RunInv` that join them: a future is in one of the loop's hands and
nothing is recorded for its contract yet (`FuturesOK`, `AdmitsOnce`,
`FreshAhead`), so a result is written once; a lease is finished only by the
`complete()` of a future whose thread returned (`SettledReturned`, with
`FinalityOfLease` inductive beside it); what a worker constructs never recommends
more than its raw outcome, and a scout's recommendation passed the validation of
its findings before it was returned (`DraftOK`, which gives `ScoutNeverInferred`);
a phase that was bound has its predecessors' receipts (`BoundOK`), so that the
commits form a chain. For stops the key notion is `Silent`: the thread is over, or
its token is set before Pi starts, or it has not started and the request is
remembered, which sets the token of a thread that starts later. It is stable,
and every acknowledged stop is of a silent worker (`StopsOK`), although the
answer, the thread, the sweep and Atlas move independently; `SweepOK` and `NoStray`
carry this to the report. The frame lemmas (`SettleFrame`, `DrainFrame`, ...) say
once what each step touches; there is one step lemma per part of the invariant.
That one commit stands for all predecessors (`Cardinality(...) = 1`) is a fact about
finite sets of contracts (`GateAssumption`).

**ArenaAttempt_proofs**: `ArenaTypeCorrect`, `OneLaunchPerAttempt`,
`EndedRunsAreTerminal`, `CapacityIsRespected`, `CancellationIsFinal` and
`LiveRunsAreSpared`. `AtMostOneLaunch` is not inductive: it says nothing of
deliveries that are about to create containers. The invariant `ArenaInv` adds
`LogAhead` (a delivery past its admission has a durable state past "proposed",
one past RUNNING a state past "admitted") and `SoleOwner` (two deliveries of an
attempt never both own it). Together they say that the durable ADMITTED event,
appended under the lock and only from "proposed", elects the one owner, whatever
the leases do. `InventoryCovers` says that what a pass may remove is outside
every active lease: in the inventory are the leases active when it was taken, and
whatever is admitted later is younger than the grace. `LiveRunsAreSpared`
assumes `Declares`, the wiring of `build_production_pi_runner`.
`CapacityIsRespected` has an invariant of its own: only the scheduler's grant
enlarges the set of active leases, by one, when it fits. There is one lemma per
action. The types and the capacity are proved and not repeated in a run.

**Records_proofs**: what is written down by the arena and by autocode.
`AccessAlwaysFollowsLeases`: calls are numbered in the order they pass their check,
and the end of a lease notes the number reached. `AccessInv` says that numbers are
not used twice (`Numbered`), that whoever passed a check for an attempt is the owner
it keeps (`Voiced`), that an ended lease is never given again (`LeasesEnd`), and so
that whatever takes effect for an attempt whose owner's lease ended passed its check
before (`Lapsed`), for calls under way and for their effects alike (`Begun`).
`RefinementStaysGoverned`: the invariant counts, for every proposal, the memory
changes its journal implies and says what each adapter that is between change and
record has in its hands; `ReportsPrior` (the memory service names the content before
the change, as the adapter's rollback assumes) is a hypothesis, because a service
that does not leaves nothing to restore. `StoreStaysWhole`: a writer past its read of
the tail may be behind the segment but never ahead of it, so the second read under
the lock decides; in the job part (`JobInv`) the completed jobs without a readable
row, with the unfinished line at the end of the ledger counted as one more, are no
more than the writes that were cut off: each cut-off write costs at most one other
job its row. `~NewlineLost` is a hypothesis: the run `store_newline` shows that the property
fails without it (section 4).

`VerdictsAreEarned` is about controls, trials and failing backends, for all
tolerances; `VerdictsStayFair` is the whole of `VerdictIsFair`, with the frontier.
It has the hypothesis `Exact` (no objective has a tolerance, the default of
`MetricObjective`), because with tolerances dominance has cycles and the frontier may
be empty. Without them dominance is a strict order, so among the admissible
candidates that dominate a given one there is one with fewest dominators of its
own: it is on the frontier and covers the candidate.

`DeployIsAlwaysChecked`, for any number of dispatches, persons, pushes, turns and
deaths: until its last look at the head (`SeenBefore`) the head a dispatch remembers
is one the pull request has or had, and if it still is the head then the drafter has
not changed, because a takeover needs a push; from the look to the merge
(`HeldAfter`) head, drafter and the other person's arm stand unless the head moved;
somebody is there to tell the outcome (`SomebodyTells`); nobody works on a deployed
change (`DeployedIsOver`), which needs that the claim lease lets one dispatch run at
a time (`OneRuns`). `GradingStaysRuled`: the grade a pass holds is the rules' grade of
the card it read (`GradeOfSeen`), the launch was for that grade (`LaunchedAsGraded`),
the tries left bound the replies heard (`BudgetOK`), and the last reply decided
(`VerdictFollows`); edits of the card meanwhile touch none of these.

`WalletStaysExact`: whoever is between open and save holds the lock and has in its
memory what the journal says (`LockHeld`), until somebody goes on without the lock;
`MarksTell` says that the correction recognises exactly the fixture's rows, which
the ledger property needs row by row. Sums are recursive functions; that two of
them agree at every place is shown by the least place at which they would not, so
that no induction theorem has to be instantiated. `CostStaysBounded`: the day's
total of the bridge, with every run that was admitted below the cap and has not yet
recorded its cost counted at the dearest price, is within the cap plus what the
workers may owe and one run for each look that could not read the ledger (`SpendOK`);
`EngineOK` bounds what the orchestrator's runs add, each by its own cap; `AlertsOK`
says that a sentinel is preceded by an alert that was tried, and `SettleOK`, which
needs the lease for each card, that a card's mints beyond one are its deaths, lost
rows and unreadable looks (`lapses`).

**Host_proofs**: the parts of skcode-hostd. `SessionsStayGuarded` and
`RefusalIsFinal`: `SessionInv` adds to the property what an inject past its gate
knows about the session (`CallsAreDue`), that only spawned sessions can be resumed
and unopened ones have no turns (`ResumableIsSpawned`, `UnopenedIsBare`), that a
refusal is latched before it is answered (`RefusedIsLatched`: this is why a restart
that forgets `refusals` does not matter) and that the archiver persisted what it
captured before it kills (`ArchiverOK`, `ArchivedIsThere`), which is blank only if
tmux failed to give the scrollback or somebody else stopped the window. A later
turn is on record unless it is one of those a death left `unlogged`.
`FeedsStayWhole`: the rail has every event up to the one the pump is at and no
hole below any other (`Prefixed`), also when a publish arrives after its pump was
cancelled; of a session read from the screen, what is missing has left the screen
and does not come back (`LostLines`); a walk back through the archive has, from its oldest row on, every row that
was there all the time (`WalkOK`).
`RailStaysHonest`: the largest cursor a node has given is in its head file or in its
last row (`Top`), rows are ordered by cursor and by time (`NodeOK`), and a publisher
that dies anywhere only ever adds above the top and takes away at the start of the
file (`Grown`). What the stream has read and not yet sent is complete up to its last
row, but for what was trimmed before the read and will be announced (`BatchOK`). The
merged view sorts by time, node and cursor: places are ranks in that order, a
bijection because the names of the nodes differ, so a page is a lower part of what
is retained (`FleetInv`). The clock does not step back; section 4 says what happens
when it does.
`PoolStaysSound`: every member is open, was closed by others, is archived or had a
tmux command fail for it (`MembersOK`), a recorded result has its transcript (`ResultsOK`), and a proposal to
grow was made below the band (`ProposalOK`), which is why growing stays within the
headroom although the pool has changed since; what a call that raised half-way left is
covered because its place is arbitrary.

**AutocodeRun_proofs**: the autopilot and the board. `AutopilotSound`,
`AutopilotMergesThroughGates` and `AutopilotForgetsNothing` rest on `AutopilotInv`.
For each card it says what the place of its worker implies (`PhaseOK`), what the
last round and its grade are (`BuildOK`), who holds the claim (`HeldOK`), where passed
work is kept (`KeptOK`), what was minted (`MintOK`), what the merge and the clearing
of the failure memory were decided on, which are steps of their own after the
decision (`GateOK`), and that the rows agree with the run journal (`RowOK`). Where a
call's failure is not looked at, each part names the entry of `build.lost` it
depends on. `SpendOK` counts every worker that has not yet been charged
at its most expensive, which bounds the overshoot of the ceiling for any number of
workers. `AloneOK` says that one worker works on one card, and on none after an
exception. `SoloOK` is about the journal file, which concurrent workers may overwrite
with an old copy: only with one worker does it always know the settled cards, and
`NothingForgotten` claims no more, since with two it fails (section 4).
`AnswersStayAsShown` and the part of `BoardStaysSound` on decisions rest on
`DigestInv`: a manifest numbers each decision once and every decision it takes for
unanswered was captured or cut short more often than it was answered (`Spare`), unless
its answer is in the store and about to be saved (`Settling`); this holds for
the manifest on disk and for the copy in the resolver's hands alike (`Usable`,
`ReplyOK`), so that a rebuild, an old copy saved over a new one and a crash between
store and manifest all keep it. That every number of a rebuilt manifest has its
decision is a fact about ranks in a finite set. The board's part, `BoardInv`: the
children of earlier runs were on the board when the run loaded it, and an epic of
this run's children is no longer to be assessed (`ViewOK`), so an epic that is split
had none (`SplitOK`), also after a run that died between two children; what the run
created and may still create is within its budget (`BudgetOK`); only a release takes a
child off its staging (`StagedOK`).

Assumptions on constants are in the modules that declare them and TLC evaluates
them in the runs. Counts, prices and bounds are natural numbers; the sets of
contracts, deliveries, cards, candidates, decisions, nodes, panes and dispatches are
finite; the model value that stands for Python's `None` is none of the values it is
told apart from (`NoneAssumption`, `HostAssumption`, `NothingAssumption`,
`GateAssumption`, `RefinementAssumption`). Beyond that: the nodes' names differ and a
page or batch is no longer than the replay limit (`RailAssumption`); the pool's band
contains its target and the ceiling is not zero, as `RollingTarget` checks (`PoolAssumption`); there is a
dearest price and the cap is not zero (`CostAssumption`); verification repeats at
least twice (`VerdictAssumption`); an archive and a page hold at least one row
(`FeedsAssumption`); an epic's decisions have their own ids and a proposal is a
sequence (`EpicAssumption`); checks fall into the buckets `gh` has, and repository and
rulesets allow merge methods `gh` knows (`RunAssumption`).

Only model-checked, and why: liveness under fairness (`EveryCommandSettles`,
`RunReports`, `HostDelivers`, `RecordsSettle`) is out of the prover's reach, and so is
everything that needs `ENABLED`, such as the absence of deadlock in the scheduler's
runs and in `autocode_cycle`. Every invariant and every safety property of a passing
run has a theorem; the two runs that expect a violation refute theirs.

## 6. Not modelled

* Other harness adapters and the session registry, command lines, HTTP wiring,
  token checks, metrics and read-only views: they keep no state of their own, or
  that of a program outside the repository.
* The launch of autocode's sandboxes: container arguments, mounts and proxying
  are I/O; a build is its outcome in `AutocodeRun`.
* Stateless classification of text and diffs (`protected.py`, `mutation.py`,
  which texts the sensitivity patterns match), prompts and parsers, field
  validation of the pydantic contracts.
* The qualification scripts, which compose what `SwarmRun` and `ArenaAttempt`
  model; evaluation and lineage views of the arena.
* In modelled components: `put_spec` and the merge of segments, the autocode
  side of the orphan pass, revert and ratify, deep-dive proposals.

`PROJECT.json` lists each component with its status and reason.

## 7. Plan

1. An abstract log that `ArenaStore` implements, and `ArenaAttempt` over it,
   which now takes an append as atomic.
2. The merge of several segments by time stamp, with clocks that step back.
