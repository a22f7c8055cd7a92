# Verification of the HermeTeam SDLC agents

TLA+ models of the parts of this repository that keep state, run concurrently or
survive failures, TLC runs that check them on small instances, and TLAPS proofs that
hold for every value of the constants. `PROJECT.json` maps every modelling definition
to the lines it stands for.

## 1. The system

Seven role agents (project manager, planner, builder, reviewer, release, incident, learning)
work on GitHub or GitLab issues. Each role is a container with a Hermes gateway that
runs the language model, and an orchestrator that cron starts again and again. Issues
move from role to role through labels. Beside them stand a capability gateway that
decides which tools an agent may see and call, a runner that executes OpenHands for the
builder, and a dashboard.

| Component | State it keeps | Operations | Talks to |
|---|---|---|---|
| Role orchestrator (`cli.py`, `db.py`, `reconciler.py`, `locking.py`) | SQLite: `work_items`, `assignments`, `agent_runs`, `transitions` | `run_once` (tick), `reconcile_only`, `requeue`, `status` | gateway (submit, get), provider |
| Workflow tables (`statuses.py`, `transitions.py`) | none | `resolve_transition`, `apply_transition`, `apply_failure_transition` | provider |
| Provider adapters (`provider_github.py`, `provider_gitlab.py`) | the issues, at the provider | fetch issues; add labels, remove labels, post a marked comment | GitHub, GitLab |
| Hermes client, final responses (`hermes_client.py`, `final_response*.py`) | none | submit, poll, parse, repair by text or by model | Hermes gateway |
| Capability gateway, execution (`mcp_proxy.py`, `authority.py`, `governance.py`, `github_app.py`) | SQLite: stop, exceptions, overrides, pending approvals, one-shot grants; token cache | `permit`, `forward`; operators' stop, exception, override, allow-once | GitHub App, upstream MCP |
| Capability gateway, resolver (`service.py`, `core.py`, `judge.py`, `catalogs.py`) | the same database: `pending_approvals`, `allow_once` | `resolve_intent`, operators' decisions | judge model, tool catalogs |
| OpenHands runner and bridge (`openhands_runner/server.py`, bridge plugin) | Unix socket queue; workspaces on disk | `delegate`, `run_task` | OpenHands, git |
| Intent-action gate (plugin) | a bounded queue of proposals for each session | record proposals, compare each tool call with them (a proposal is never consumed) | Hermes |
| Status snapshot and server | none (reads the database) | build, serve | dashboard |
| Dashboard (`dashboard/src`) | cached overview, one collection in flight; the page's last data | overview, governance routes; poll, refetch when visible | status servers, Docker, gateway |
| Supervisor scripts (`orchestrator/bin`) | child processes | start, restart, tick | container runtime |

What is hard here:

- a tick is **one SQLite transaction around many remote calls**. Any exception undoes
  the local rows; comments, labels and started runs stay. Everything about retries,
  lost answers and duplicates follows from this;
- the orchestrator compares, decides and posts on data that was **read earlier** (the
  revision of the last discovery, a governance snapshot, the position in a queue);
- handler threads and operators **interleave between transactions** of the gateway;
- processes die, answers get lost, callers give up, timeouts race with late answers;
- attempts, pages, grants, backlogs have **limits**, with off-by-one at the border.

`PROJECT.json` lists these hazards at their lines, with the properties that look at them.

## 2. Modules

| Module | Models | Notes |
|---|---|---|
| `Statuses` | `statuses.py`, `resolve_transition`, `matches_role` | the tables literally, as operators |
| `QueueRows` | the life of an assignments row, as others see it | shared |
| `RoleQueue` | what a role's orchestrator promises of its queue | abstract; `RoleOrchestrator` implements it |
| `Pipeline` | several roles' orchestrators over the labels of one issue | extends `Statuses`, `QueueRows` |
| `PipelineProofs` | | theorems about it and about the tables |
| `RoleOrchestrator` | one role's commands, database, gateway runs and provider issues | the core |
| `RoleOrchestratorProofs` | | theorems about it, the refinement of `RoleQueue` among them |
| `DynamicAuthority` | `permit` and `forward` over the governance store | |
| `DynamicAuthorityProofs` | | theorems |
| `TokenBroker` | `github_app.py` inside the gateway | extends `DynamicAuthority` and implements it |
| `MCTokenBroker` | | symmetry for TLC |
| `TokenBrokerProofs` | | theorems, the refinement among them |
| `Resolution` | `core.py`: risk scores, dominance, `resolve` | pure operators |
| `Resolver` | `resolve_intent` over the governance store | extends `Resolution` |
| `MCResolver` | | constant values for TLC |
| `ResolverProofs` | | theorems |
| `OpenHandsRunner` | runner and bridge | |
| `MCOpenHandsRunner` | | constant values for TLC |
| `OpenHandsRunnerProofs` | | theorems |
| `IntentActionGate` | the intent-action gate plugin | |
| `IntentActionGateProofs` | | theorems |
| `StatusOverview` | status snapshot, status server, the dashboard's overview, the page's query | |
| `MCStatusOverview` | | constant values for TLC |
| `StatusOverviewProofs` | | theorems |

Definitions keep the names of the source where they can. Next to some of them stand
operators marked *Mutant*: plausible bugs of that definition. They are used nowhere in
the specifications; each makes one property fail, which shows that the property looks
at the code.

### RoleOrchestrator

`db` is the committed database, `txn` what the open transaction sees. `init_db` ends
with an UPDATE, so every command holds SQLite's write lock from there on: at most one
is open, and `Begin` needs `pc = "idle"`. The program counter goes

    idle -> reconcile -> (provider -> reconcile)* -> start -> idle

one step for each row of `active_runs` (the disjuncts of `ReconcileRun` are the branches
of the loop, in the order the code tests them: the timeout before the gateway is asked,
the stale revision before the verdict), for each call of the GitHub adapter, for the
discovery with its upserts, and for each submit. `Rollback` is taken by every exception
the code lets through: `GetRunError`, `DiscoveryError`, `SubmitError`,
`SubmitAnswerLost`, a refused `mark_assignment_started`, and by `Kill` and `Restart`. It
restores `txn` and leaves `gw` and `gh` as they are. `ProviderError` is caught by
`apply_transition` and only recorded.

The environment: runs end in the gateway in any of the ways of `Outcomes`; a run may get
overdue and a retry delay elapse at any time (so every order of clock and events is
covered); people edit issues, set labels, assign issues and fill the comment page; the operator requeues
by safe or forced statuses; a restarted container has forgotten its runs; a gateway may
answer a submit with an earlier run of the same Idempotency-Key, or with a new one.

Abstractions: an issue's content is its revision number; a comment is its marker, on the
page `_comment_exists` reads or after it; a final response is a valid verdict of the role
or unparsable; the order among due assignments is any order, which covers the code's.

`Provider` says which adapter is configured. The GitLab adapter applies nothing: it
returns a result that says so, and the transitions row records it (`Applies`).

`RoleQueue` is what all this promises to those who read the committed table: a row is
discovered, started, settled or retried as `TickMoves` allows, and only the operator's
requeue brings a blocked or COMPLETED row back. `QueueStatus` maps `db` to it, and the
property `ImplementsQueue` is its specification. `StatusOverview` and `Pipeline` use the
same rows: what they assume of a queue is what the orchestrator is checked and proved to
do.

### Pipeline

Each role has its own database and gateway; the roles share the issue only. A role's
tick is that of `RoleOrchestrator` with less detail: it reconciles its runs, each with a
hand-over of one call for the labels added and one for each label removed, discovers the
issue if it matches (`matches_role`), and starts the assignment. Ticks of two roles
interleave at every call. Edits of the issue and of its assignees, failing label calls
and rollbacks may happen anywhere, `MaxTrouble` of them in all.

An issue matches a role by its labels or by an assignee: `config.py:123` gives every role
the account `hermes-<role>` if nothing else is configured. People may therefore make an
issue two roles' at once (`AssignIssue`); `taken` records that a role took a content up
without a label of its own.

### DynamicAuthority

Every store method is one transaction under the store's lock, one action here; `permit`
is the sequence idle -> authorize -> check -> (record | mint) -> minted -> consume ->
forward for a call that needs a human (idle -> mint -> minted -> forward for the others), and threads
and operators interleave in between. Both `has_execution_grant` and
`consume_execution_grant` read the clock before they wait for the lock and for `BEGIN
IMMEDIATE`: `ReadClock` is a step of its own, and a grant that expires in the wait is
still found and consumed. A call is its tool and its scope (run, repository,
branch and argument hash together). Grants are numbered in the order they are created,
the order `consume_execution_grant` picks them in. Discovery calls pass through the token
broker and upstream without authority, as in the code.

### TokenBroker

`Mint` of `DynamicAuthority` taken apart: a thread reads the clock, looks into the cache
under the lock, asks GitHub with the lock released, and stores the answer. Two threads
may miss together, and the later answer replaces the earlier one whichever lives longer.
Answers come late, with any lifetime of `Lifetimes` or not at all, and a restart forgets
the cache. All other steps are those of `DynamicAuthority`.

### Resolution and Resolver

`assess_risk` adds the weights of the judged flags and, where a flag is absent, of the
annotations; `dominates` and `resolve` follow `core.py` line by line over sequences of
candidates (fits are percentages, the tolerance 8). `Resolver` threads receive, judge
(any judgement each time: the judge is a language model), read the store, resolve, ask
for an allow-once, consume it, resolve again, or record a pending approval; operators act
in between.

### OpenHandsRunner

The runner serves one connection after the other; the listen queue, the caller's own
timeout, OpenHands's timeout, the checks after the run and the answer are separate
actions. An answer to a caller that has gone raises `BrokenPipeError` outside the `try`
of `handle` and ends the process (`BrokenPipe`), and the queue with it. `server.py` gives
OpenHands the workspace as its working directory only, and the whole workspace root is
mounted writable: while it runs it may change any workspace (`OpenHandsActs`), also those
that were checked and answered with success before. Workspaces may lie inside each other
(`safe_workspace` allows the root itself); left out are only those inside the `.git` or
the OpenHands home of another, where preparing one would be a change to the other.

### IntentActionGate

The hooks of concurrent runs share one deque for each session id; a run without one
shares the session "". The loop of `on_post_api_request` over a response's calls is one
step for each call, because the lock is held for each append only. `log` is history:
every proposal of a session, from which the properties say what the deque should know.
The text `classify_action` searches is one of a few kinds of tool and of arguments, and a
hash is the value it is taken of.

### StatusOverview

`log[r]` is every content role r's database has had, the current one last, so that a
reading can say which version it saw. A row is `PENDING` and due, `PENDING` and delayed,
`STARTED`, blocked or `COMPLETED`, as the snapshot tells them apart; `Commit` applies what
a tick, a reconciliation or a requeue may do to rows (`Moves`), or a retry time coming.

A collection (`coll[k]`) is one run of `#collect`: `DockerList` and one `DockerInspect` a
container, in any order; for each role `ReadCounters` and `ReadItems`, the two SELECTs of
`read_role_status_snapshot`, which run in autocommit mode and so in two read
transactions; `DockerFails` and `ReadFails` for every way a request fails;
`DeadlineExpires` for the shared deadline, after which what is still running is ignored.
`CollectionEnds` derives the states, caches the overview, clears `#inFlight` and answers
those who wait, which happens in one turn of the event loop. `getOverview` has its three
cases: cached, in flight, new.

The page polls (`Refresh`), is hidden and shown (`Hide`, `Show`); `Show` calls `refetch`,
which in react-query cancels a fetch under way if there are data and joins it otherwise
(external, modelled from how `App.tsx` uses it). A fetch that fails keeps the old data and
sets the notice.

Abstractions: the error codes of a failed source are one failure; sizes are counted in
items, for the status server's limit and for the dashboard's; the fallback of
`#collect` for an overview that its own validation rejects is left out, because every part
was validated before. The names 1..`MaxCollections` are for promises that are pending
together.

## 3. Runs

| Run | Shows | Bounds |
|---|---|---|
| `orch_revisions` | what is committed, posted and recorded agrees: `FailuresAreRecorded`, `AppliedIsVisible`, `FirstPageMarkersUnique`, `SettledRunsFrozen`, `NoVerdictAfterCommit` | planner, 1 issue with 2 revisions, 2 runs, a comment page of 1, labels and the planner's account on and off |
| `orch_operator` | assignments and runs stay consistent: `AtMostOneActiveRun`, `StartedHasActiveRun`, `AttemptsBounded`, `FinalNeedsOperator`; the queue lives as promised: `ImplementsQueue`; the work goes on: `RunsSettle`, `PendingStarts` | project manager on GitLab, 3 runs, 2 attempts, retry delay, every kind of end, a forced requeue, one fault |
| `pipeline` | `OneRolePerRevision`, `Settles`, `NeverStalls` | builder and reviewer, an issue with 2 contents that may be assigned to `hermes-reviewer`, 2 edits, assignments, failed calls or rollbacks |
| `authority` | `OneShot`, `GrantFitsCall`, `CeilingHolds`, `SpentOnlyOnRelease`, `StopDrains` | 2 threads, a HIGH tool, 2 scopes, 1 grant, overrides below and above the ceiling |
| `broker` | `TokenFitsCall`, `ReuseIsFresh` | 2 threads, one tool and discovery, lifetimes shorter and longer than the cache's 2 units, margin 1, clock up to 3 |
| `resolver` | `OneShot`, `OfferedIsAuthorised`, `StopRefusesAll`, `LeastPrivilege`, `SomethingUsable` | 2 threads, 2 tools, lists with repetitions, 12 judgements of a tool, 2 approvals, in two halves (`Halves`, see below) |
| `runner` | `SuccessIsClean`, `RunsOnce`, `CallsEnd` | 3 calls, 2 of them for one of 2 workspaces, a backlog of 0 (one waits, the next is refused) |
| `gate` | `ProposedPasses`, `ChangedArgumentsRaised` | 3 runs, 2 of them in one session, deques of 2, 3 proposals, one tool call id, repeated and malformed calls |
| `overview` | `AgentStateHappened`, `ActiveIsListed`, `ViewsMoveForward`, `ViewCatchesUp` | 2 roles, 2 assignments each, lists of 1 item, 1 commit of 1 row, 1 change of a container, 1 hidden page, 1 restart, room for 2 collections |

The bounds make the races happen: two threads are needed for one grant, a second attempt
for a retry, a second revision for a stale result, a third caller for a full queue; a
page of one comment makes the marker fall behind the page; a third proposal overflows a
deque of two; a lifetime of one unit makes a token that must not be kept. More items or threads of the
same kind only repeat these, and the theorems below cover any number.

`resolver` explores two halves of the space, which its constraint `Halves` separates: as
long as only the first tool and a judgement on either side of the ceiling have come into
play, two threads race and operators do anything; once there is a choice (the second
tool, or any other judgement), one request is served at a time and operators only except
tools and allow a request once. What the race is about, the rows of one request, has no
use for a second tool, and what the choice is about is decided inside one resolution on
the thread's own snapshot; the theorems cover both together.

In `runner` two calls meet in one workspace and a third works in another, so that a run
elsewhere can come between a success and the next use of its workspace.

In `overview` one role works on more than its list can hold and the other has nothing yet,
so that a commit there makes the overview of both too large; one commit is enough to fall
between two SELECTs, between two collections, or between cache and page. The containers
of this instance are running or absent. Larger instances were run once, without error:
commits of two rows (3.7 million states), and, for the safety properties, containers that
may be unhealthy (5.4 million). `ViewsMoveForward` rests on `getOverview` joining the collection in flight: a
version that starts a new one instead lets an older collection answer after a newer one.
`ViewCatchesUp` is about pages that show no notice: while an overview stays too large, or
a source keeps failing, the page says so and keeps its data.

What `OneRolePerRevision` excludes is real. If the issue is edited back to an earlier
content, or a label call fails after `AddLabels`, or a rollback repeats a hand-over, two
roles may work on one content; and a late `RemoveLabel` of one role removes a label that
another has just put back. And an issue with the builder's labels that is assigned to
`hermes-reviewer` is worked on by both roles on one content with no fault at all: the
assignee brings a second role in, and nothing in the code decides between them.
`Settles` and `NeverStalls` hold with assignees, too. `Settles` is the other side of `INSERT OR IGNORE`: one content
is worked on once by each role, so the roles cannot pass it to and fro for ever.

Three runs expect a violation, each of a sentence in the repository:

| Run | Sentence | What the code does |
|---|---|---|
| `pipeline_rework` | `statuses.py:120` "Reviewer requested changes. Returning to builder." | the labels return, but the builder's assignment of that content exists and is COMPLETED, so `ensure_assignment` (`INSERT OR IGNORE`, `db.py:217`) adds nothing and the builder never works on it, until the issue is edited or an operator forces a requeue |
| `runner_remote` | `docs/BUILDER_OPENHANDS_LSP.md:124` "After OpenHands exits, the runner checks Git remotes ... Added remotes are removed" | when OpenHands is killed by its timeout the checks are skipped |
| `gate_tool_swap` | `docs/INTENT_ACTION_GATE_MVP.md:75` "The plugin compares the actual tool name and argument hash with the last model proposal. A mutation with no matching proposal, or changed arguments, is raised to at least `high` risk." | a proposal with the call's id is taken whatever its tool (`match_proposal`), and only the arguments' hashes are compared: a write under the id and with the arguments of a proposed read keeps its medium risk |

Limits of what holds, met while modelling:

- the tick reconciles before it fetches, so a result is stale only against the last
  discovery; an edit since then goes unseen until the next tick;
- an error later in a tick rolls the reconciled response back although its verdict was
  posted, and the run may then be judged again, with another verdict posted;
  `NoVerdictAfterCommit` is about committed ones;
- `permit` looks at the emergency stop once: calls in flight still go upstream, and
  `StopDrains` says that they come to an end;
- the intent-action gate compares tool names only for a proposal it found by name; under
  the same tool call id it compares the arguments alone, so `ChangedArgumentsRaised` is
  about arguments (`gate_tool_swap` shows the rest);
- a grant may be consumed after it expired, if it expires while the thread waits for the
  lock: `SpentOnlyOnRelease` says that it had not when the thread read the clock;
- a success of the runner is about the workspace at the end of that run:
  `SuccessIsClean` ends when OpenHands runs again, for whatever workspace.

### Fairness

`RoleOrchestrator!Fairness`: cron starts ticks for ever; a tick's own steps are taken
because every `urlopen` has a timeout; the clock advances; discovery and the submit
endpoint may fail any number of times but not for ever. A gateway that replays a finished
run for the same Idempotency-Key does so for a limited time. Nothing is assumed of
`get_run`: `RunsSettle` holds although it may fail for ever, because the timeout is
tested first. `PendingStarts` is stated up to the exhaustion of the instance's run ids.

`Pipeline!Fairness`: cron starts every role's ticks for ever and the clock makes runs
overdue. Faults are finite by `MaxTrouble`. Nothing is assumed of the agents.

`DynamicAuthority!Fairness`: a thread that is in `permit` goes on (token and upstream
requests have timeouts). Operators and callers need do nothing.

`OpenHandsRunner!FairSpec`: the runner's loop goes on, the container is restarted
(`restart: unless-stopped`), the timeout of `subprocess.run` fires. Nothing is assumed of
callers, whose own timeout is therefore not what makes `CallsEnd` true, nor of OpenHands.

`StatusOverview!Fairness`: the timers of the deadline, of the cache's two seconds and of
the polling fire, and settled promises are continued. No source has to answer, nobody has
to commit, and a hidden page need not be shown again.

Deadlock is checked in every run.

## 4. Proofs

Each proof module states an inductive invariant `IInv`, shows that `Init` implies it and
every action keeps it (one lemma per action or group of actions), and derives the
theorems. The constants are only constrained by the `ASSUME`s of the models, which TLC
evaluates in every run.

**RoleOrchestrator.** `AtMostOneActiveRun` is not inductive: a forced requeue makes an
assignment PENDING while its run is ACTIVE. `IInv` adds, for `db` and `txn` alike, that
every run row belongs to a counted attempt (`RunsLinked`), that an ACTIVE run is the
latest attempt of a STARTED or PENDING assignment (`ActiveIsLatest`), that a PENDING
assignment has an attempt left (`WithinAttempts`), that the command's cursors point at
rows it may still change (`CursorsValid`) and that what is final in `db` is unchanged in
`txn` (`FinalRowsKept`). Theorems: `TypeCorrect`, `OneActiveRunEach`, `NoOrphanedStart`,
`RetriesBounded`, and the action properties `SettledRunsStay` and `FinalStays`.

`EInv` is added for what crosses the border of the transaction. A failed run of `txn`
has its transitions row or the adapter is working on it (`RecordsDue`), so a commit, which
comes only after the adapter, finds the row: `FailuresRecorded`. A row that says applied
has its comment when it is written, and no rollback takes a comment back (`VisibleIn`):
`AppliedVisible`. Comments fill the first page before they come after it (`PagesFill`), so
a marker posted twice is behind the page: `MarkersUnique`, for any page size. The adapter
only works for runs that are not settled in `db` (`PostsUnsettled`): `NothingPostedLate`.

`QueueRefined` shows `Spec => RQ!Spec` for every value of the constants. Only `Commit` and
the operator's requeue change `db`, and a tick's commit is many changes in one step:
`RowMoves` says of every row what the transaction may have made of the committed one.
A run that is reconciled is ACTIVE in `db` as well (`RunsKept`), which is why nothing is
settled without a run; an assignment with an ACTIVE run waits for no retry
(`ActiveNotDelayed`) and nothing delayed is started (`StartsDue`), which is why a delayed row
stays as it is until its time has come.

**Pipeline.** The lemmas about the tables come first, by cases over all entries of
`TRANSITIONS`: no two roles share a label, an entry takes all labels of its own role and
gives all labels of one other role, or a terminal label. So a role *has* the issue
(`Holds`) while it has a label of its own that it is not about to remove, and a hand-over
moves the issue with the one call that adds the labels. `PInv` says that at most one role
has it by its labels (`OneHolder`), that who works on the content it has last seen, or is about to start
on it, has it (`WorkHoldsIssue`), that labels are removed only after the role's work on that
content is done (`TransitionInOrder`), and that contents are seen in their order
(`SeenInOrder`), which is where an edit back to an old content would break it. All of it
is under `Undisturbed`: no failed call, no rollback, no edit back, and no content taken up
by the assignees alone, where `WorkHoldsIssue` would fail. A role that
still works on an older content does so alone: that content can no longer be discovered.
Theorems: `TypesHold`, `OwnershipHolds`, `OneRoleAtATime`, for any set of valid roles whose
statuses the tables route, and any number of contents.

**DynamicAuthority.** `IInv` adds that only a forwarding thread that needed a human holds
a grant, that a released grant is spent, and that the snapshot's "no human required"
stays justified while it is used, because exceptions and overrides are never taken back.
Theorems: `GrantsAreOneShot`, `GrantsFitCalls`, `CeilingIsKept`, `SpendingReleases`.

**TokenBroker.** `ImplementsAuthority` shows `BrokerSpec => Spec`: each of the broker's
own steps leaves the variables of `DynamicAuthority` alone, and the others are its steps,
so every theorem above holds with the broker in place (`BrokeredOneShot` states one).
`BInv` adds that an entry that may still be reused is filed under its own permissions and
within both limits, the token's expiry less the margin and `cache_seconds` after it was
asked for (`EntriesFit`), and that a thread is in `mint` exactly while `permit` waits for
it and holds a token for its own call from then on (`CallsFit`, thread by thread
`CallFits`). Theorems: `TokensFitCalls`, `ReuseStaysFresh`.

**Resolver.** About the pure part: `RiskIsMonotone` (a judge that sets more flags never
lowers a score), and, with the least-number principle, that in every nonempty list some
candidate of least score is undominated, from which `AgentsGetSomething` follows. `IInv`
adds where an answer came from (the resolution on the thread's own snapshot), that the
snapshot's permissions are still in the store, and that selections by allow-once never
exceed the operators' decisions. Theorems: `AllowOnceIsOneShot`, `OffersAreAuthorised`,
`OffersAreLeastPrivileged`, `AgentsGetSomething`, `StoppedGetNothing`.

**OpenHandsRunner.** `IInv` adds that the queue holds distinct calls that did not run and
are not served, that the served call is the last one that ran, in any workspace, from start
to checks, and that a success on its way is about a clean workspace. So it does not matter
to the proof which workspaces a run writes to: whoever was answered before is not the last. Theorems:
`TasksRunOnce`, `SuccessLeavesClean`.

**IntentActionGate.** Both properties compare an event with the log of all proposals, but
`match_proposal` reads the deque. `GInv` says that a session's deque is a window on its log:
all of it, or the last `MaxLen` (`Window`). `append` with `maxlen` keeps it, whichever run
appends; then the latest proposal in the deque is the latest in the log that still counts.
Theorems: `WindowInvariance`, `ProposedCallPasses`, `ChangedIsRaised`, for any number of
runs and sessions and any `MaxLen` the assumptions allow.

**StatusOverview.** `ViewsMoveForward` needs `OrderInv`: collections do not overlap each
other or a valid cache entry (`SingleFlight`); what a collection has read is between the
versions it began with and the current ones (`ReadsInOrder`); the page is behind the cache,
and behind what the collection in flight began with (`ViewsInOrder`). A collection that
outlives a cancelled fetch is still the one in flight, hence the first part; a restart
drops cache and collections but not the page, hence the last part relates the page to the
databases as well. Theorems: `TypeCorrect`, `OrderHolds`, `PageMovesForward`.

`HistoryInv` says that what a collection has listed, the cache holds and the page shows was
a content of the database at the versions noted with it; logs only grow, so this stays true
(`HistoryHolds`). `AgentStatesHappened` follows with `OrderInv`, and `ActiveListed` with a
lemma about `ItemLists`: a list cut at a positive limit whose order puts STARTED rows first
has one if there is one.

The type invariants of `DynamicAuthority`, `Resolver` and `OpenHandsRunner` are parts of
the proved `IInv`s.

The inductive invariants were checked with TLC before they were proved: `EInv`, `GInv` and
`HistoryInv` on the instances of the runs, `PInv` on that of `pipeline`
and on three roles.

Only model-checked: the liveness properties `RunsSettle`, `PendingStarts`, `Settles`,
`StopDrains`, `CallsEnd` and `ViewCatchesUp`, because the prover does not handle fairness,
and `NeverStalls`, an invariant about every state in which all roles are at rest. Every
other invariant and every action property of a passing run is a theorem.
What the folds and the recursive functions of the models compute for every input (the calls
of a response that the gate has still to record, `resolve`'s list) would need induction
over data, which the prover does not do either; the theorems use what holds of them
element by element.

## 5. Not modelled

- Text: prompts, comment wording, JSON extraction, deterministic repair of responses, the
  patterns of `classify_action`.
- HTTP servers' authentication and parsing, catalogs' clients, the judge's answer format.
- Parsing of the environment into a configuration: the switches are constants here.
- Checks that only refuse a call and change nothing (`builder_invocation_context`, the
  parameter checks of `delegate`).
- The discovery limit of 100 issues, the migration of old databases.
- The gate's event file, which nothing reads back.
- Processes that OpenHands leaves behind, the agent's own writes to a workspace, and
  workspaces inside the `.git` or the OpenHands home of another.
- Policies, profiles, Kubernetes and compose files.
- The dashboard's rendering, Langfuse monitor, governance routes and static files.

## 6. Plan

1. *Lemmas about the tables* for the roles `Pipeline` runs do not have: which roles a
   content can reach from each role.
2. *Supervisor*: the shell scripts that start gateway and orchestrator, tick and restart,
   now the fairness of cron ticks and the actions `Kill` and `Restart`.
