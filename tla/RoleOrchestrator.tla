-------------------------- MODULE RoleOrchestrator --------------------------
(***************************************************************************)
(* One role container's orchestrator: cli.run_once (the cron tick),        *)
(* cli.reconcile_only and cli.requeue over the role's SQLite database      *)
(* (db.py), with reconciler.reconcile, transitions.py and the transition   *)
(* adapters of GitHub and GitLab.                                          *)
(*                                                                         *)
(* A command is one SQLite transaction: db.init_db ends with an UPDATE, so *)
(* the write lock is held from there to the commit at the end of           *)
(* db.connect, and any exception rolls everything back.  `db` is the       *)
(* committed database, `txn` the open transaction's view of it.  The       *)
(* Hermes gateway (`gw`), the GitHub issues (`gh`) and the clock are       *)
(* outside the transaction and change between its steps.                   *)
(***************************************************************************)
EXTENDS Integers, FiniteSets, Statuses

CONSTANTS
  Role,             \* config.role
  Provider,         \* config.provider: github or gitlab
  Item,             \* work items (GitHub issues)
  MaxRev,           \* number of contents (title and body) an issue can have
  MaxRuns,          \* bound: runs the gateway can create
  MaxAttempts,      \* config.max_attempts_per_assignment
  MaxStarts,        \* config.max_starts_per_tick
  RetryLost,        \* config.retry_lost_runs
  RetryTransient,   \* config.retry_transient_failures
  HasRetryDelay,    \* config.retry_delay_seconds > 0
  ApplyTransitions, \* config.apply_transitions
  CommentOnly,      \* config.transition_comment_only
  ModelRepair,      \* config.final_response_model_repair_enabled
  PageSize,         \* comments _comment_exists reads: per_page=100
  Outcomes,         \* bound: the ways runs of the instance end, repaired or not
  HumanLabels,      \* labels people add to and remove from issues
  HumanAssignees,   \* the roles to whose account people assign issues
  ForcedStatuses,   \* statuses an operator names with requeue --status
  MaxRequeues,      \* bound: operator requeues of one assignment
  MaxFaults         \* bound: kills, container restarts and lost answers

GatewayEnd == ROLE_FINAL_STATUSES(Role) \cup
  {"unparsable", "config_error", "transient_error", "other_error", "cancelled", "timeout"}

ASSUME ConfigAssumption ==
  /\ Role \in VALID_ROLES /\ Provider \in {"github", "gitlab"}
  /\ MaxRev \in Nat \ {0} /\ MaxRuns \in Nat
  /\ MaxAttempts \in Nat \ {0} /\ MaxStarts \in Nat
  /\ RetryLost \in BOOLEAN /\ RetryTransient \in BOOLEAN
  /\ HasRetryDelay \in BOOLEAN /\ ModelRepair \in BOOLEAN
  /\ ApplyTransitions \in BOOLEAN /\ CommentOnly \in BOOLEAN
  /\ PageSize \in Nat /\ Outcomes \in SUBSET GatewayEnd
  /\ MaxRequeues \in Nat /\ MaxFaults \in Nat

VARIABLES
  db,       \* the committed database
  txn,      \* the open transaction's view; equal to db when none is open
  pc,       \* where the open command is: idle, reconcile, provider, start
  tick,     \* TRUE for run_once, FALSE for reconcile_only
  todo,     \* rows of active_runs() still to reconcile
  starts,   \* rows of pending_assignments() still to start
  out,      \* the provider transition in flight
  gw,       \* the gateway's runs
  overdue,  \* runs older than config.run_timeout_seconds
  cooling,  \* assignments whose next_retry_at lies in the future
  gh,       \* the issues on the provider
  posted,   \* history: statuses posted to the provider for each run
  requeues, \* history: operator requeues of each assignment
  faults    \* history: faults so far

command == <<txn, pc, tick, todo, starts, out>>
history == <<posted, requeues, faults>>
vars == <<db, command, gw, overdue, cooling, gh, history>>

-----------------------------------------------------------------------------
(* Data                                                                    *)

Rev   == 1..MaxRev          \* WorkItem.revision_key()
Key   == Item \X Rev        \* WorkItem.assignment_key(Role)
RunId == 1..MaxRuns         \* hermes_run_id, in the order the gateway issues them
NoKey == <<>>
Verdict == ROLE_FINAL_STATUSES(Role)
\* What a transitions row can report.
Reported == Verdict \cup {"LOST_REQUEUED", "FAILED_REQUEUED", "LOST", "TIMEOUT",
                          "STALE_OUTPUT", "INVALID_OUTPUT", "BLOCKED_CONFIG",
                          "FAILED_FINAL"}
Label == HumanLabels \cup DEFAULT_ROLE_LABELS(Role) \cup {"hermes:blocked"}
           \cup UNION {t.add \cup t.remove : t \in TRANSITIONS}

RunStatus == {"NONE", "ACTIVE", "COMPLETED", "FAILED", "LOST", "TIMEOUT",
              "CANCELLED", "INVALID_OUTPUT", "STALE_OUTPUT"}
AssignmentStatus == {"NONE", "PENDING", "STARTED", "COMPLETED", "FAILED_FINAL",
                     "BLOCKED_CONFIG", "TIMEOUT", "CANCELLED"}

RunRow        == [status: RunStatus, key: Key \cup {NoKey}, attempt: Nat]
AssignmentRow == [status: AssignmentStatus, attempts: Nat, retry: BOOLEAN]
TransitionRow == [key: Key, status: Reported, applied: BOOLEAN]

\* The four tables; a row with status NONE is absent, rev 0 is a missing work item.
Database == [rev: [Item -> 0..MaxRev], asg: [Key -> AssignmentRow],
             runs: [RunId -> RunRow], trans: SUBSET TransitionRow]

GatewayState == {"unused", "running", "gone"} \cup GatewayEnd
GatewayRun == [key: Key \cup {NoKey}, state: GatewayState]

\* A comment marker: the idempotency key "transition:<assignment_key>:<status>".
Mark == Key \X Reported
\* n comments fill the first page; first and later hold the markers on it and
\* after it; dup the markers posted more than once.
Issue == [rev: Rev, labels: SUBSET Label, assignees: SUBSET HumanAssignees, n: 0..PageSize,
          first: SUBSET Mark, later: SUBSET Mark, dup: SUBSET Mark]

Outgoing == [run: RunId \cup {0}, key: Key \cup {NoKey}, status: Reported \cup {""},
             add: SUBSET Label, remove: SUBSET Label]
NoOut == [run |-> 0, key |-> NoKey, status |-> "", add |-> {}, remove |-> {}]

TypeOK ==
  /\ db \in Database /\ txn \in Database
  /\ pc \in {"idle", "reconcile", "provider", "start"} /\ tick \in BOOLEAN
  /\ todo \in SUBSET RunId /\ starts \in SUBSET Key /\ out \in Outgoing
  /\ gw \in [RunId -> GatewayRun]
  /\ overdue \in SUBSET RunId /\ cooling \in SUBSET Key
  /\ gh \in [Item -> Issue]
  /\ posted \in [RunId -> SUBSET Reported] /\ requeues \in [Key -> Nat]
  /\ faults \in Nat

-----------------------------------------------------------------------------
(* db.py: statements as functions of a database                            *)

ActiveRun(d, r) == d.runs[r].status = "ACTIVE"

\* Mutant: active_runs without its status filter.
active_runs_unfiltered(d) == {r \in RunId : d.runs[r].status # "NONE"}

active_runs(d) == {r \in RunId : ActiveRun(d, r)}

\* Mutant: INSERT OR REPLACE instead of INSERT OR IGNORE.
upsert_and_replace(d, found) ==
  [d EXCEPT
     !.rev = [i \in Item |-> IF i \in found THEN gh[i].rev ELSE d.rev[i]],
     !.asg = [k \in Key |->
                IF k[1] \in found /\ k[2] = gh[k[1]].rev /\ d.asg[k].status # "STARTED"
                THEN [status |-> "PENDING", attempts |-> d.asg[k].attempts, retry |-> FALSE]
                ELSE d.asg[k]]]

upsert_and_ensure(d, found) ==
  [d EXCEPT
     !.rev = [i \in Item |-> IF i \in found THEN gh[i].rev ELSE d.rev[i]],
     !.asg = [k \in Key |->
                IF k[1] \in found /\ k[2] = gh[k[1]].rev /\ d.asg[k].status = "NONE"
                THEN [status |-> "PENDING", attempts |-> 0, retry |-> FALSE]
                ELSE d.asg[k]]]

\* Mutant: a row with a next_retry_at is never due.
pending_never_retried(d) == {k \in Key : d.asg[k].status = "PENDING" /\ ~d.asg[k].retry}

\* Mutant: next_retry_at is not looked at.
pending_undelayed(d) == {k \in Key : d.asg[k].status = "PENDING"}

\* Order and LIMIT aside: the rows the WHERE clause of pending_assignments selects.
pending_assignments(d) ==
  {k \in Key : d.asg[k].status = "PENDING" /\ ~(d.asg[k].retry /\ k \in cooling)}

mark_assignment_started(d, k, r) ==
  [d EXCEPT
     !.asg = [d.asg EXCEPT ![k] = [status |-> "STARTED",
                                   attempts |-> d.asg[k].attempts + 1,
                                   retry |-> FALSE]],
     !.runs = [d.runs EXCEPT ![r] = [status |-> "ACTIVE", key |-> k,
                                     attempt |-> d.asg[k].attempts + 1]]]

\* Mutants of mark_run_finished: the assignment takes the run's status, the WHERE
\* clause lacks status='ACTIVE', the assignment is not updated.
finish_default_status(d, k, run_status, assignment_status, retry) ==
  [d EXCEPT
     !.runs = [r \in RunId |-> IF ActiveRun(d, r) /\ d.runs[r].key = k
                               THEN [d.runs[r] EXCEPT !.status = run_status]
                               ELSE d.runs[r]],
     !.asg = [d.asg EXCEPT ![k].status = run_status, ![k].retry = retry]]
finish_all_attempts(d, k, run_status, assignment_status, retry) ==
  [d EXCEPT
     !.runs = [r \in RunId |-> IF d.runs[r].key = k
                               THEN [d.runs[r] EXCEPT !.status = run_status]
                               ELSE d.runs[r]],
     !.asg = [d.asg EXCEPT ![k].status = assignment_status, ![k].retry = retry]]
finish_run_only(d, k, run_status, assignment_status, retry) ==
  [d EXCEPT
     !.runs = [r \in RunId |-> IF ActiveRun(d, r) /\ d.runs[r].key = k
                               THEN [d.runs[r] EXCEPT !.status = run_status]
                               ELSE d.runs[r]]]

mark_run_finished(d, k, run_status, assignment_status, retry) ==
  [d EXCEPT
     !.runs = [r \in RunId |-> IF ActiveRun(d, r) /\ d.runs[r].key = k
                               THEN [d.runs[r] EXCEPT !.status = run_status]
                               ELSE d.runs[r]],
     !.asg = [d.asg EXCEPT ![k] = [status |-> assignment_status,
                                   attempts |-> d.asg[k].attempts,
                                   retry |-> retry]]]

record_transition(d, k, final_status, applied) ==
  [d EXCEPT !.trans = d.trans \cup
     {[key |-> k, status |-> final_status, applied |-> applied]}]

requeue_assignments(d, ks) ==
  [d EXCEPT !.asg = [k \in Key |->
     IF k \in ks THEN [d.asg[k] EXCEPT !.status = "PENDING", !.retry = FALSE]
     ELSE d.asg[k]]]

\* The repair UPDATE at the end of init_db: attempt_count is raised to the largest
\* attempt_number of the assignment's runs.
init_db(d) ==
  LET numbers(k) == {d.runs[r].attempt : r \in {x \in RunId :
                       d.runs[x].status # "NONE" /\ d.runs[x].key = k}}
  IN [d EXCEPT !.asg = [k \in Key |->
       IF \E n \in numbers(k) : n > d.asg[k].attempts
       THEN [d.asg[k] EXCEPT !.attempts =
               CHOOSE n \in numbers(k) : \A m \in numbers(k) : m <= n]
       ELSE d.asg[k]]]

-----------------------------------------------------------------------------
(* The transaction                                                         *)

CloseCommand ==
  /\ pc' = "idle" /\ tick' = FALSE /\ todo' = {} /\ starts' = {} /\ out' = NoOut

\* db.connect: rollback on any exception; the provider and the gateway keep what
\* they were told.
Rollback == CloseCommand /\ txn' = db /\ UNCHANGED db

Commit == CloseCommand /\ db' = txn /\ UNCHANGED txn

\* nonblocking_lock and SQLite's write lock: no second command while one is open.
Begin(isTick) ==
  /\ pc = "idle"
  /\ pc' = "reconcile" /\ tick' = isTick
  /\ txn' = init_db(db)
  /\ todo' = active_runs(init_db(db))
  /\ UNCHANGED <<db, starts, out, gw, overdue, cooling, gh, history>>

run_once == Begin(TRUE)
reconcile_only == Begin(FALSE)

-----------------------------------------------------------------------------
(* reconciler.reconcile: one iteration per row of active_runs, oldest first *)

notReconciling == <<db, tick, starts, gw, overdue, gh, history>>

NextRun(r) == pc = "reconcile" /\ r \in todo /\ \A s \in todo : r <= s
RunKey(r) == txn.runs[r].key
AttemptsOffByOne(r) == txn.runs[r].attempt <= MaxAttempts  \* Mutant.
HasAttemptsRemaining(r) == txn.runs[r].attempt < MaxAttempts

\* The settled row and no transition at all.
SettleSilently(r, run_status, assignment_status) ==
  /\ txn' = mark_run_finished(txn, RunKey(r), run_status, assignment_status, FALSE)
  /\ todo' = todo \ {r}
  /\ UNCHANGED <<notReconciling, pc, out, cooling>>

\* LOST_REQUEUED and FAILED_REQUEUED: back to PENDING with a retry timestamp.
RequeueLocally(r, run_status, tag) ==
  /\ txn' = record_transition(
              mark_run_finished(txn, RunKey(r), run_status, "PENDING", HasRetryDelay),
              RunKey(r), tag, FALSE)
  /\ todo' = todo \ {r}
  /\ cooling' = IF HasRetryDelay THEN cooling \cup {RunKey(r)} ELSE cooling
  /\ UNCHANGED <<notReconciling, pc, out>>

\* GitLabTransitionAdapter sends nothing and answers applied=False ("unsupported").
Applies == ApplyTransitions /\ Provider = "github"

\* mark_run_finished, then the head of apply_transition / apply_failure_transition:
\* with transitions disabled, or GitLab's adapter, only the row is written, otherwise
\* GitHub's adapter is called.
SettleAndTransition(r, run_status, assignment_status, final_status, add, remove) ==
  LET k == RunKey(r)
      settled == mark_run_finished(txn, k, run_status, assignment_status, FALSE)
  IN /\ todo' = todo \ {r}
     /\ \/ /\ ~Applies
           /\ txn' = record_transition(settled, k, final_status, FALSE)
           /\ UNCHANGED <<pc, out>>
        \/ /\ Applies
           /\ txn' = settled
           /\ pc' = "provider"
           /\ out' = [run |-> r, key |-> k, status |-> final_status,
                      add |-> IF CommentOnly THEN {} ELSE add,
                      remove |-> IF CommentOnly THEN {} ELSE remove]
     /\ UNCHANGED <<notReconciling, cooling>>

Fail(r, run_status, assignment_status, failure_status) ==
  SettleAndTransition(r, run_status, assignment_status, failure_status,
                      {"hermes:blocked"}, {})

\* _timed_out is asked before the gateway is.
TimeoutRun(r) == NextRun(r) /\ r \in overdue /\ Fail(r, "TIMEOUT", "TIMEOUT", "TIMEOUT")

\* client.get_run answered with this state.
Observed(r, state) == NextRun(r) /\ r \notin overdue /\ gw[r].state = state

\* HermesRunNotFound.
LostRun(r) ==
  /\ Observed(r, "gone")
  /\ \/ /\ RetryLost /\ HasAttemptsRemaining(r)
        /\ RequeueLocally(r, "LOST", "LOST_REQUEUED")
     \/ /\ ~(RetryLost /\ HasAttemptsRemaining(r))
        /\ Fail(r, "LOST", "FAILED_FINAL", "LOST")

\* _assignment_matches_current_revision, against the work_items row.
MatchesCurrentRevision(k) == k[2] = txn.rev[k[1]]

\* A completed run with a valid final response v.
CompleteRun(r, v) ==
  \/ /\ ~MatchesCurrentRevision(RunKey(r))
     /\ Fail(r, "STALE_OUTPUT", "FAILED_FINAL", "STALE_OUTPUT")
  \/ /\ MatchesCurrentRevision(RunKey(r)) /\ HasTransition(Role, v)
     /\ SettleAndTransition(r, "COMPLETED", "COMPLETED", v,
                            LabelsToAdd(Role, v), LabelsToRemove(Role, v))
  \/ /\ MatchesCurrentRevision(RunKey(r)) /\ ~HasTransition(Role, v)
     /\ SettleSilently(r, "COMPLETED", "COMPLETED")

\* Strict parse or deterministic repair succeeded.
ParsedRun(r) == \E v \in Verdict : Observed(r, v) /\ CompleteRun(r, v)

\* _parse_or_repair_final_response fell through to the model, which may produce
\* any valid response or none.
UnparsableRun(r) ==
  /\ Observed(r, "unparsable")
  /\ \/ ModelRepair /\ \E v \in Verdict \cap Outcomes : CompleteRun(r, v)
     \/ Fail(r, "INVALID_OUTPUT", "FAILED_FINAL", "INVALID_OUTPUT")

FailedRun(r) ==
  \/ /\ Observed(r, "config_error")
     /\ Fail(r, "FAILED", "BLOCKED_CONFIG", "BLOCKED_CONFIG")
  \/ /\ Observed(r, "transient_error") /\ RetryTransient /\ HasAttemptsRemaining(r)
     /\ RequeueLocally(r, "FAILED", "FAILED_REQUEUED")
  \/ /\ \/ Observed(r, "other_error")
        \/ /\ Observed(r, "transient_error")
           /\ ~(RetryTransient /\ HasAttemptsRemaining(r))
     /\ Fail(r, "FAILED", "FAILED_FINAL", "FAILED_FINAL")

CancelledRun(r) == Observed(r, "cancelled") /\ SettleSilently(r, "CANCELLED", "CANCELLED")

UpstreamTimeoutRun(r) == Observed(r, "timeout") /\ Fail(r, "TIMEOUT", "TIMEOUT", "TIMEOUT")

StillRunning(r) ==
  /\ Observed(r, "running")
  /\ todo' = todo \ {r}
  /\ UNCHANGED <<notReconciling, txn, pc, out, cooling>>

\* Mutant: the gateway is asked before the timeout is checked.
GetRunErrorFirst(r) ==
  /\ NextRun(r)
  /\ Rollback
  /\ UNCHANGED <<gw, overdue, cooling, gh, history>>

\* Any other get_run error leaves reconcile through an exception.
GetRunError(r) ==
  /\ NextRun(r) /\ r \notin overdue
  /\ Rollback
  /\ UNCHANGED <<gw, overdue, cooling, gh, history>>

ReconcileRun(r) ==
  \/ TimeoutRun(r) \/ LostRun(r) \/ ParsedRun(r) \/ UnparsableRun(r)
  \/ FailedRun(r) \/ CancelledRun(r) \/ UpstreamTimeoutRun(r) \/ StillRunning(r)

-----------------------------------------------------------------------------
(* GitHubTransitionAdapter.apply_issue_transition, call by call            *)

notProvider == <<db, tick, todo, starts, gw, overdue, cooling, requeues, faults>>
OutItem == out.key[1]
OutMark == <<out.key, out.status>>

AddLabels ==
  /\ pc = "provider" /\ out.add # {}
  /\ gh' = [gh EXCEPT ![OutItem].labels = @ \cup out.add]
  /\ out' = [out EXCEPT !.add = {}]
  /\ UNCHANGED <<notProvider, txn, pc, posted>>

RemoveLabel ==
  /\ pc = "provider" /\ out.add = {}
  /\ \E l \in out.remove :
       /\ gh' = [gh EXCEPT ![OutItem].labels = @ \ {l}]
       /\ out' = [out EXCEPT !.remove = @ \ {l}]
  /\ UNCHANGED <<notProvider, txn, pc, posted>>

never_exists(issue, mark) == FALSE  \* Mutant: no look for the marker.

\* _comment_exists reads one page of comments.
comment_exists(issue, mark) == mark \in issue.first

WithComment(issue, mark) ==
  IF comment_exists(issue, mark) THEN issue
  ELSE [issue EXCEPT
          !.n = IF issue.n < PageSize THEN issue.n + 1 ELSE issue.n,
          !.first = IF issue.n < PageSize THEN issue.first \cup {mark} ELSE issue.first,
          !.later = IF issue.n < PageSize THEN issue.later ELSE issue.later \cup {mark},
          !.dup = IF mark \in issue.first \cup issue.later THEN issue.dup \cup {mark}
                  ELSE issue.dup]

\* The comment call, its answer received or lost, and the transitions row.
PostComment(answered) ==
  /\ pc = "provider" /\ out.add = {} /\ out.remove = {}
  /\ gh' = [gh EXCEPT ![OutItem] = WithComment(@, OutMark)]
  /\ posted' = [posted EXCEPT ![out.run] = @ \cup {out.status}]
  /\ txn' = record_transition(txn, out.key, out.status, answered)
  /\ pc' = "reconcile" /\ out' = NoOut
  /\ UNCHANGED notProvider

\* Mutants of ProviderError: no row, or a row that claims the transition was applied.
ProviderErrorUnrecorded ==
  /\ pc = "provider"
  /\ pc' = "reconcile" /\ out' = NoOut
  /\ UNCHANGED <<notProvider, gh, posted, txn>>
ProviderErrorApplied ==
  /\ pc = "provider"
  /\ txn' = record_transition(txn, out.key, out.status, TRUE)
  /\ pc' = "reconcile" /\ out' = NoOut
  /\ UNCHANGED <<notProvider, gh, posted>>

\* "provider errors must not erase the reconciled final response": the error goes
\* into the row and the transition is not tried again.
ProviderError ==
  /\ pc = "provider"
  /\ txn' = record_transition(txn, out.key, out.status, FALSE)
  /\ pc' = "reconcile" /\ out' = NoOut
  /\ UNCHANGED <<notProvider, gh, posted>>

-----------------------------------------------------------------------------
(* Discovery and starting                                                  *)

Reconciled == pc = "reconcile" /\ todo = {}

\* _fetch_items, matches_role, upsert_work_item, ensure_assignment and the SELECT of
\* pending_assignments.
Discover ==
  LET d == upsert_and_ensure(txn, {i \in Item : matches_role(gh[i].labels, gh[i].assignees, Role)})
      due == pending_assignments(d)
  IN /\ Reconciled /\ tick
     /\ txn' = d
     /\ \E S \in SUBSET due :
          /\ \/ Cardinality(S) = MaxStarts
             \/ Cardinality(S) < MaxStarts /\ S = due
          /\ starts' = S
     /\ pc' = "start"
     /\ UNCHANGED <<db, tick, todo, out, gw, overdue, cooling, gh, history>>

DiscoveryError ==
  /\ Reconciled /\ tick
  /\ Rollback
  /\ UNCHANGED <<gw, overdue, cooling, gh, history>>

\* Mutant: no look for an ACTIVE run.
RecordStartUnchecked(k, r) ==
  \/ txn.runs[r].status # "NONE" /\ Rollback
  \/ /\ txn.runs[r].status = "NONE"
     /\ txn' = mark_assignment_started(txn, k, r)
     /\ starts' = starts \ {k}
     /\ UNCHANGED <<db, pc, tick, todo, out>>

\* The row is inserted, or mark_assignment_started raises: an ACTIVE run exists
\* already, or the UNIQUE index on hermes_run_id refuses the run.
RecordStart(k, r) ==
  LET refused == \/ \E s \in RunId : ActiveRun(txn, s) /\ txn.runs[s].key = k
                 \/ txn.runs[r].status # "NONE"
  IN \/ refused /\ Rollback
     \/ /\ ~refused
        /\ txn' = mark_assignment_started(txn, k, r)
        /\ starts' = starts \ {k}
        /\ UNCHANGED <<db, pc, tick, todo, out>>

Submitting(k) == pc = "start" /\ k \in starts
Fresh(r) == gw[r].state = "unused" /\ \A s \in RunId : s < r => gw[s].state # "unused"
GatewayCreates(k, r) ==
  gw' = [gw EXCEPT ![r] = [key |-> k, state |-> "running"]]

\* submit_run answered with a new run.
StartFresh(k) ==
  /\ Submitting(k)
  /\ \E r \in RunId : Fresh(r) /\ GatewayCreates(k, r) /\ RecordStart(k, r)
  /\ UNCHANGED <<overdue, cooling, gh, history>>

\* submit_run answered with a run created earlier under the same Idempotency-Key.
StartReplayed(k) ==
  /\ Submitting(k)
  /\ \E r \in RunId : /\ gw[r].key = k /\ gw[r].state \notin {"unused", "gone"}
                      /\ RecordStart(k, r)
  /\ UNCHANGED <<gw, overdue, cooling, gh, history>>

SubmitError(k) ==
  /\ Submitting(k)
  /\ Rollback
  /\ UNCHANGED <<gw, overdue, cooling, gh, history>>

\* The gateway created the run, its answer did not arrive.
SubmitAnswerLost(k) ==
  /\ Submitting(k) /\ faults < MaxFaults
  /\ \E r \in RunId : Fresh(r) /\ GatewayCreates(k, r)
  /\ Rollback
  /\ faults' = faults + 1
  /\ UNCHANGED <<overdue, cooling, gh, posted, requeues>>

EndCommand ==
  /\ \/ pc = "start" /\ starts = {}
     \/ Reconciled /\ ~tick
  /\ Commit
  /\ UNCHANGED <<gw, overdue, cooling, gh, history>>

-----------------------------------------------------------------------------
(* The operator, the container and the world outside                       *)

SafeStatuses == {"BLOCKED_CONFIG", "FAILED_FINAL", "LOST", "FAILED"}

\* cli.requeue: no flock, but the same write lock.  --assignment-key and --limit
\* narrow the rows, --status replaces the safe statuses.
requeue ==
  /\ pc = "idle"
  /\ \E statuses \in {SafeStatuses, ForcedStatuses} :
     \E ks \in SUBSET {k \in Key : db.asg[k].status \in statuses \ {"NONE"}} :
       /\ ks # {} /\ \A k \in ks : requeues[k] < MaxRequeues
       /\ db' = requeue_assignments(init_db(db), ks)
       /\ txn' = db'
       /\ requeues' = [k \in Key |-> IF k \in ks THEN requeues[k] + 1 ELSE requeues[k]]
  /\ UNCHANGED <<pc, tick, todo, starts, out, gw, overdue, cooling, gh, posted, faults>>

\* The command's process dies: the transaction is rolled back.
Kill ==
  /\ pc # "idle" /\ faults < MaxFaults
  /\ Rollback
  /\ faults' = faults + 1
  /\ UNCHANGED <<gw, overdue, cooling, gh, posted, requeues>>

\* The container restarts: the gateway in it forgets its runs.
Restart ==
  /\ faults < MaxFaults
  /\ Rollback
  /\ gw' = [r \in RunId |-> IF gw[r].state = "unused" THEN gw[r]
                            ELSE [gw[r] EXCEPT !.state = "gone"]]
  /\ faults' = faults + 1
  /\ UNCHANGED <<overdue, cooling, gh, posted, requeues>>

\* The agent's run ends in the gateway.
GatewayFinishes(r) ==
  /\ gw[r].state = "running"
  /\ \E s \in Outcomes : gw' = [gw EXCEPT ![r].state = s]
  /\ UNCHANGED <<db, command, overdue, cooling, gh, history>>

RunAges(r) ==
  /\ ActiveRun(db, r) /\ r \notin overdue
  /\ overdue' = overdue \cup {r}
  /\ UNCHANGED <<db, command, gw, cooling, gh, history>>

RetryDelayElapses(k) ==
  /\ k \in cooling
  /\ cooling' = cooling \ {k}
  /\ UNCHANGED <<db, command, gw, overdue, gh, history>>

\* People and other roles edit, label, assign and comment on issues.
EditIssue(i) ==
  /\ \E v \in Rev \ {gh[i].rev} : gh' = [gh EXCEPT ![i].rev = v]
  /\ UNCHANGED <<db, command, gw, overdue, cooling, history>>

ToggleLabel(i) ==
  /\ \E l \in HumanLabels :
       gh' = [gh EXCEPT ![i].labels = IF l \in @ THEN @ \ {l} ELSE @ \cup {l}]
  /\ UNCHANGED <<db, command, gw, overdue, cooling, history>>

ToggleAssignee(i) ==
  /\ \E a \in HumanAssignees :
       gh' = [gh EXCEPT ![i].assignees = IF a \in @ THEN @ \ {a} ELSE @ \cup {a}]
  /\ UNCHANGED <<db, command, gw, overdue, cooling, history>>

HumanComment(i) ==
  /\ gh[i].n < PageSize
  /\ gh' = [gh EXCEPT ![i].n = @ + 1]
  /\ UNCHANGED <<db, command, gw, overdue, cooling, history>>

-----------------------------------------------------------------------------
(* The specification                                                       *)

NewIssue == [rev |-> 1, labels |-> DEFAULT_ROLE_LABELS(Role), assignees |-> {}, n |-> 0,
             first |-> {}, later |-> {}, dup |-> {}]
NewDatabase ==
  [rev |-> [i \in Item |-> 0],
   asg |-> [k \in Key |-> [status |-> "NONE", attempts |-> 0, retry |-> FALSE]],
   runs |-> [r \in RunId |-> [status |-> "NONE", key |-> NoKey, attempt |-> 0]],
   trans |-> {}]

Init ==
  /\ db = NewDatabase /\ txn = NewDatabase
  /\ pc = "idle" /\ tick = FALSE /\ todo = {} /\ starts = {} /\ out = NoOut
  /\ gw = [r \in RunId |-> [key |-> NoKey, state |-> "unused"]]
  /\ overdue = {} /\ cooling = {}
  /\ gh = [i \in Item |-> NewIssue]
  /\ posted = [r \in RunId |-> {}] /\ requeues = [k \in Key |-> 0] /\ faults = 0

CommandStep ==
  \/ run_once \/ reconcile_only
  \/ \E r \in RunId : ReconcileRun(r) \/ GetRunError(r)
  \/ AddLabels \/ RemoveLabel \/ ProviderError
  \/ \E answered \in BOOLEAN : PostComment(answered)
  \/ Discover \/ DiscoveryError
  \/ \E k \in Key : StartFresh(k) \/ StartReplayed(k) \/ SubmitError(k) \/ SubmitAnswerLost(k)
  \/ EndCommand

EnvironmentStep ==
  \/ requeue \/ Kill \/ Restart
  \/ \E r \in RunId : GatewayFinishes(r) \/ RunAges(r)
  \/ \E k \in Key : RetryDelayElapses(k)
  \/ \E i \in Item : EditIssue(i) \/ ToggleLabel(i) \/ ToggleAssignee(i) \/ HumanComment(i)

Next == CommandStep \/ EnvironmentStep

Spec == Init /\ [][Next]_vars

(***************************************************************************)
(* Fairness.  cron starts run_once over and over; the code's own steps are *)
(* taken; the clock advances; GitHub discovery and the gateway's submit    *)
(* endpoint, which may fail at any time, do not fail for ever, and a       *)
(* gateway that honours the Idempotency-Key (the same for every attempt)   *)
(* does so for a limited time; no call hangs (every urlopen has a 30 s     *)
(* timeout).                                                               *)
(***************************************************************************)
Fairness ==
  /\ SF_vars(run_once)
  /\ \A r \in RunId : WF_vars(ReconcileRun(r)) /\ WF_vars(RunAges(r))
  /\ WF_vars(AddLabels \/ RemoveLabel \/ ProviderError \/ PostComment(TRUE))
  /\ SF_vars(Discover)
  /\ \A k \in Key : SF_vars(StartFresh(k)) /\ WF_vars(RetryDelayElapses(k))
  /\ WF_vars(\E k \in Key : StartFresh(k) \/ StartReplayed(k) \/ SubmitError(k))
  /\ WF_vars(EndCommand)

FairSpec == Spec /\ Fairness

-----------------------------------------------------------------------------
(* Properties                                                              *)

\* An assignment never has two ACTIVE rows in agent_runs, whatever run id the
\* gateway answers with and whatever the operator requeues (mark_assignment_started
\* looks for an ACTIVE row and raises).
OneActiveRun(d) ==
  \A r, s \in RunId :
    ActiveRun(d, r) /\ ActiveRun(d, s) /\ d.runs[r].key = d.runs[s].key => r = s
AtMostOneActiveRun == OneActiveRun(db) /\ OneActiveRun(txn)

\* A STARTED assignment has an ACTIVE run whose attempt number is its attempt_count:
\* no interleaving of ticks, rollbacks and requeues leaves it STARTED with nothing
\* left for reconcile to find.
StartedHasRun(d) ==
  \A k \in Key : d.asg[k].status = "STARTED" =>
    \E r \in RunId : /\ ActiveRun(d, r) /\ d.runs[r].key = k
                     /\ d.runs[r].attempt = d.asg[k].attempts
StartedHasActiveRun == StartedHasRun(db) /\ StartedHasRun(txn)

\* Automatic retries (LOST and transient failures) never start more than
\* max_attempts_per_assignment runs; every run beyond that was asked for by an
\* operator's requeue.
AttemptsBounded ==
  \A k \in Key : db.asg[k].attempts <= MaxAttempts + requeues[k]

\* Every run committed as timed out, invalid or stale has its transitions row: the
\* row and the run commit together although provider calls lie between them.
Recorded(d, r) == \E t \in d.trans : t.key = d.runs[r].key /\ t.status = d.runs[r].status
FailuresAreRecorded ==
  \A r \in RunId :
    db.runs[r].status \in {"TIMEOUT", "INVALID_OUTPUT", "STALE_OUTPUT"} => Recorded(db, r)

\* A transitions row that says provider_applied has its marked comment on the issue.
AppliedIsVisible ==
  \A t \in db.trans : t.applied =>
    <<t.key, t.status>> \in gh[t.key[1]].first \cup gh[t.key[1]].later

\* A marker on the page _comment_exists reads is never posted again, however often a
\* rolled-back tick repeats the transition.
FirstPageMarkersUnique == \A i \in Item : gh[i].dup \cap gh[i].first = {}

\* A settled run of the committed database never changes again and no row is lost.
SettledRunsFrozen ==
  [][\A r \in RunId : db.runs[r].status \notin {"NONE", "ACTIVE"} =>
       db'.runs[r] = db.runs[r]]_db

\* An assignment leaves a final status only through an operator's requeue.
FinalNeedsOperator ==
  [][\A k \in Key : db.asg[k].status \notin {"NONE", "PENDING", "STARTED"} =>
       \/ db'.asg[k] = db.asg[k]
       \/ db'.asg[k].status = "PENDING" /\ requeues'[k] = requeues[k] + 1]_db

\* Once a run's result is committed, nothing more is posted about that run.
NoVerdictAfterCommit ==
  [][\A r \in RunId : db.runs[r].status \notin {"NONE", "ACTIVE"} =>
       posted'[r] = posted[r]]_<<posted, db>>

\* The committed rows, classified as status_snapshot.py does.
QueueStatus(k) ==
  LET row == db.asg[k]
  IN CASE row.status = "NONE" -> "none"
       [] row.status = "PENDING" -> IF row.retry /\ k \in cooling THEN "delayed" ELSE "due"
       [] row.status \in {"STARTED", "COMPLETED"} -> row.status
       [] OTHER -> "blocked"

RQ == INSTANCE RoleQueue WITH Work <- Key, queue <- [k \in Key |-> QueueStatus(k)]

\* The orchestrator implements RoleQueue: across ticks that reconcile, retry and start
\* in one transaction, rollbacks, restarts and operators' requeues, a row is never
\* seen going from blocked, COMPLETED or delayed to STARTED, or settled without a run.
ImplementsQueue == RQ!Spec

\* Every run the database holds ACTIVE is settled in the end, even if get_run keeps
\* failing for it: the timeout is checked first.
RunsSettle == \A r \in RunId : ActiveRun(db, r) ~> ~ActiveRun(db, r)

\* Every PENDING assignment is started in the end, after any delay, rollback and lost
\* answer (as long as the instance's gateway can still create runs).
RunsExhausted == \A r \in RunId : gw[r].state # "unused"
PendingStarts ==
  \A k \in Key : db.asg[k].status = "PENDING" ~>
                   (db.asg[k].status # "PENDING" \/ RunsExhausted)

-----------------------------------------------------------------------------
(* The inductive invariant behind the safety properties                    *)

\* A run row belongs to an assignment that has counted its attempt.
RunsLinked(d) ==
  \A r \in RunId : d.runs[r].status # "NONE" =>
    /\ d.runs[r].key \in Key
    /\ d.asg[d.runs[r].key].status # "NONE"
    /\ d.runs[r].attempt <= d.asg[d.runs[r].key].attempts

\* An ACTIVE run is its assignment's latest attempt, and the assignment is STARTED,
\* or PENDING again after a forced requeue.
ActiveIsLatest(d) ==
  \A r \in RunId : ActiveRun(d, r) =>
    /\ d.asg[d.runs[r].key].status \in {"PENDING", "STARTED"}
    /\ d.runs[r].attempt = d.asg[d.runs[r].key].attempts

Consistent(d) ==
  RunsLinked(d) /\ ActiveIsLatest(d) /\ OneActiveRun(d) /\ StartedHasRun(d)

\* A PENDING assignment has an attempt left.
WithinAttempts(d) ==
  \A k \in Key :
    /\ d.asg[k].attempts <= MaxAttempts + requeues[k]
    /\ d.asg[k].status = "PENDING" => d.asg[k].attempts < MaxAttempts + requeues[k]

\* The open command works on rows it may change: runs still ACTIVE, assignments
\* still PENDING; what the committed database holds as final it has not touched.
FinalStatus == AssignmentStatus \ {"NONE", "PENDING", "STARTED"}
Settled(d, r) == d.runs[r].status \notin {"NONE", "ACTIVE"}
CursorsValid ==
  /\ \A r \in todo : ActiveRun(txn, r)
  /\ \A k \in starts : txn.asg[k].status = "PENDING"
  /\ pc # "start" => starts = {}
  /\ pc = "idle" => todo = {}
  /\ pc = "provider" => out.run \in RunId /\ out.key \in Key /\ out.status \in Reported
FinalRowsKept ==
  /\ \A k \in Key : db.asg[k].status \in FinalStatus => txn.asg[k] = db.asg[k]
  /\ \A r \in RunId : Settled(db, r) => txn.runs[r] = db.runs[r]

IInv == /\ TypeOK
        /\ Consistent(db) /\ Consistent(txn)
        /\ WithinAttempts(db) /\ WithinAttempts(txn)
        /\ CursorsValid /\ FinalRowsKept

(***************************************************************************)
(* What is added to IInv for the properties about transitions, comments    *)
(* and the queue as others see it.                                         *)
(***************************************************************************)

\* The transaction owes a failed run its row only while the adapter works on it.
RecordedFailure == {"TIMEOUT", "INVALID_OUTPUT", "STALE_OUTPUT"}
Sending(k, status) == pc = "provider" /\ out.key = k /\ out.status = status
RecordsDue ==
  \A r \in RunId : txn.runs[r].status \in RecordedFailure =>
    Recorded(txn, r) \/ Sending(txn.runs[r].key, txn.runs[r].status)

\* An applied row has its comment from the moment it is written, committed or not.
VisibleIn(d) ==
  \A t \in d.trans : t.applied =>
    <<t.key, t.status>> \in gh[t.key[1]].first \cup gh[t.key[1]].later

\* Comments fill the first page before they come after it, so no marker is on both.
PagesFill ==
  \A i \in Item :
    /\ gh[i].n < PageSize => gh[i].later = {}
    /\ gh[i].dup \subseteq gh[i].later /\ gh[i].first \cap gh[i].later = {}

\* The adapter works for a run that the committed database has not settled.
PostsUnsettled == pc = "provider" => ~Settled(db, out.run)

\* An assignment with an ACTIVE run waits for no retry.
ActiveNotDelayed(d) == \A r \in RunId : ActiveRun(d, r) => ~d.asg[d.runs[r].key].retry

\* Against the committed database, the transaction keeps the runs and their
\* assignments, reconciles runs ACTIVE there, and starts nothing that is delayed.
Delayed(d, k) == d.asg[k].status = "PENDING" /\ d.asg[k].retry /\ k \in cooling
RunsKept ==
  /\ \A r \in RunId : db.runs[r].status # "NONE" =>
       txn.runs[r].status # "NONE" /\ txn.runs[r].key = db.runs[r].key
  /\ \A r \in todo : ActiveRun(db, r)
StartsDue == \A k \in starts : ~Delayed(txn, k)
RowMoves(k) ==
  /\ db.asg[k].status # "NONE" => txn.asg[k].status # "NONE"
  /\ db.asg[k].status = "NONE" =>
       \/ txn.asg[k].status \in {"NONE", "STARTED"}
       \/ txn.asg[k].status = "PENDING" /\ ~txn.asg[k].retry
  /\ Delayed(db, k) => txn.asg[k] = db.asg[k]

EInv == /\ RecordsDue /\ FailuresAreRecorded
        /\ VisibleIn(db) /\ VisibleIn(txn)
        /\ PagesFill /\ PostsUnsettled
        /\ ActiveNotDelayed(db) /\ ActiveNotDelayed(txn)
        /\ RunsKept /\ StartsDue /\ \A k \in Key : RowMoves(k)
=============================================================================
