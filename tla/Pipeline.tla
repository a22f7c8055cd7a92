------------------------------- MODULE Pipeline -------------------------------
(***************************************************************************)
(* The roles' orchestrators together, over one GitHub issue.  Each role    *)
(* runs in a container of its own, with its own database and gateway; all  *)
(* they share is the issue: a role finds its work by the labels or the     *)
(* assignees (assignment.matches_role), and its verdict moves the labels   *)
(* on to the next role (statuses.TRANSITIONS); it leaves the assignees,    *)
(* which people set.  Nothing orders the ticks of two roles, and a         *)
(* hand-over is one call to add labels and one for each label removed,     *)
(* inside a transaction that may still be rolled back.                     *)
(*                                                                         *)
(* A role's tick is the one of RoleOrchestrator with less detail: rows are *)
(* those of QueueRows, the attempts of an assignment are one run, the      *)
(* failures that block an issue are one, and the comment belongs to the    *)
(* success of the last label call.  A command's start, which only reads    *)
(* the role's own rows, belongs to its first step, and its commit, which   *)
(* only writes them, to its last.                                          *)
(***************************************************************************)
EXTENDS Integers, FiniteSets, Statuses, QueueRows

CONSTANTS
  Roles,        \* the roles that have a container
  First,        \* the role whose labels the issue has at the start
  Accounts,     \* the roles whose account people assign the issue to
  MaxRev,       \* bound: contents (title and body) of the issue
  Outcomes,     \* bound: the ways runs of the instance end
  MaxTrouble    \* bound: edits of the issue or its assignees, failed provider calls and
                \* rolled-back commands, together

ASSUME PipelineAssumption ==
  /\ Roles \subseteq VALID_ROLES /\ First \in Roles /\ Accounts \subseteq VALID_ROLES
  /\ \A role \in Roles : \A s \in ROLE_FINAL_STATUSES(role) : HasTransition(role, s)
  /\ MaxRev \in Nat \ {0}
  /\ MaxTrouble \in Nat
  /\ Outcomes \subseteq {"failed"} \cup UNION {ROLE_FINAL_STATUSES(role) : role \in Roles}

VARIABLES
  labels,    \* the issue's labels
  assignees, \* the roles to whose account it is assigned
  rev,       \* its current content
  db,        \* each role's committed database
  txn,       \* the view of its open transaction
  pc,        \* idle, reconcile, provider, start
  todo,      \* ACTIVE runs the open tick has still to reconcile
  out,       \* its provider transition in flight
  run,       \* the gateways: the run of each assignment
  newest,    \* history: the latest content the issue has had
  reverted,  \* history: the issue was edited back to a content it had before
  taken,     \* history: a role took up a content without a label of its own
  edits, faults   \* counters of the bounds

tick == <<txn, pc, todo, out>>
issue == <<assignees, rev, newest, reverted, edits>>
vars == <<labels, issue, db, tick, run, taken, faults>>

Rev == 1..MaxRev
Verdict(role) == ROLE_FINAL_STATUSES(role)
Label == (UNION {DEFAULT_ROLE_LABELS(role) : role \in Roles}) \cup TERMINAL_LABELS
           \cup (UNION {t.add \cup t.remove : t \in TRANSITIONS})
Reported == {"STALE_OUTPUT", "FAILED"} \cup UNION {Verdict(role) : role \in Roles}

\* seen is the content of the work_items row (0: none); rows are the transitions.
Row == [rev: Rev, status: Reported, applied: BOOLEAN]
Database == [seen: 0..MaxRev, asg: [Rev -> Status], rows: SUBSET Row]
Overdue == {"overdue", "ended, overdue"}
RunState == {"none", "running", "failed"} \cup Overdue \cup UNION {Verdict(role) : role \in Roles}
NoOut == [rev |-> 0, status |-> "", add |-> {}, remove |-> {}]
Outgoing == [rev: Rev, status: Reported, add: SUBSET Label, remove: SUBSET Label] \cup {NoOut}

TypeOK ==
  /\ labels \in SUBSET Label /\ assignees \in SUBSET Accounts
  /\ rev \in Rev /\ newest \in Rev /\ reverted \in BOOLEAN /\ taken \in BOOLEAN
  /\ edits \in Nat /\ faults \in Nat
  /\ db \in [Roles -> Database] /\ txn \in [Roles -> Database]
  /\ pc \in [Roles -> {"idle", "reconcile", "provider", "start"}]
  /\ todo \in [Roles -> SUBSET Rev] /\ out \in [Roles -> Outgoing]
  /\ run \in [Roles -> [Rev -> RunState]]

-----------------------------------------------------------------------------
(* A role's command                                                        *)

Goto(role, label) == pc' = [pc EXCEPT ![role] = label]
Write(role, d) == txn' = [txn EXCEPT ![role] = d]

active_runs(d) == {v \in Rev : d.asg[v] = "STARTED"}

Close(role) ==
  /\ Goto(role, "idle")
  /\ todo' = [todo EXCEPT ![role] = {}] /\ out' = [out EXCEPT ![role] = NoOut]

\* db.connect commits d.  Runs it has settled are never asked for again and forgotten.
Commit(role, d, runs) ==
  /\ Close(role) /\ Write(role, d) /\ db' = [db EXCEPT ![role] = d]
  /\ run' = [run EXCEPT ![role] =
       [v \in Rev |-> IF d.asg[v] \in {"blocked", "COMPLETED"} THEN "none" ELSE runs[v]]]

\* run_once, with runs to reconcile.
Begin(role) ==
  /\ pc[role] = "idle" /\ active_runs(db[role]) # {}
  /\ Goto(role, "reconcile")
  /\ todo' = [todo EXCEPT ![role] = active_runs(db[role])]
  /\ UNCHANGED <<labels, issue, db, txn, out, run, taken, faults>>

Reconciling(role, v) == pc[role] = "reconcile" /\ v \in todo[role]
NextRun(role, v) == todo' = [todo EXCEPT ![role] = @ \ {v}]

record_transition(d, v, status, applied) ==
  [d EXCEPT !.rows = @ \cup {[rev |-> v, status |-> status, applied |-> applied]}]

\* mark_run_finished, and the call of the adapter.
Settle(role, v, asg, status, add, remove) ==
  /\ NextRun(role, v)
  /\ Write(role, [txn[role] EXCEPT !.asg[v] = asg])
  /\ Goto(role, "provider")
  /\ out' = [out EXCEPT ![role] =
       [rev |-> v, status |-> status, add |-> add, remove |-> remove]]
  /\ UNCHANGED <<labels, issue, db, run, taken, faults>>

Fail(role, v, status) == Settle(role, v, "blocked", status, {"hermes:blocked"}, {})

\* A verdict about the content that the role's work_items row has.
CompleteRun(role, v) ==
  /\ Reconciling(role, v) /\ run[role][v] \in Verdict(role) /\ txn[role].seen = v
  /\ Settle(role, v, "COMPLETED", run[role][v],
            LabelsToAdd(role, run[role][v]), LabelsToRemove(role, run[role][v]))

StaleRun(role, v) ==
  /\ Reconciling(role, v) /\ run[role][v] \in Verdict(role) /\ txn[role].seen # v
  /\ Fail(role, v, "STALE_OUTPUT")

\* Mutant: the attempts are not counted, a failed run is always tried again.
FailedRequeued(role, v) ==
  /\ Reconciling(role, v) /\ run[role][v] \in Overdue \cup {"failed"}
  /\ NextRun(role, v)
  /\ Write(role, [txn[role] EXCEPT !.asg[v] = "due"])
  /\ UNCHANGED <<labels, issue, db, pc, out, run, taken, faults>>

\* A failure, after the last attempt, or a timeout: _timed_out comes first, whatever
\* the gateway would say, and the gateway is not told.
FailedRun(role, v) ==
  /\ Reconciling(role, v) /\ run[role][v] \in Overdue \cup {"failed"}
  /\ Fail(role, v, "FAILED")

StillRunning(role, v) ==
  /\ Reconciling(role, v) /\ run[role][v] = "running"
  /\ NextRun(role, v)
  /\ UNCHANGED <<labels, issue, db, txn, pc, out, run, taken, faults>>

-----------------------------------------------------------------------------
(* GitHubTransitionAdapter.apply_issue_transition                          *)

Sending(role) == pc[role] = "provider"

AddLabels(role) ==
  /\ Sending(role) /\ out[role].add # {}
  /\ labels' = labels \cup out[role].add
  /\ out' = [out EXCEPT ![role].add = {}]
  /\ UNCHANGED <<issue, db, txn, pc, todo, run, taken, faults>>

\* Mutant: the old role's labels stay.
RemoveNothing(role) ==
  /\ Sending(role) /\ out[role].add = {} /\ out[role].remove # {}
  /\ out' = [out EXCEPT ![role].remove = {}]
  /\ UNCHANGED <<labels, issue, db, txn, pc, todo, run, taken, faults>>

RemoveLabel(role) ==
  /\ Sending(role) /\ out[role].add = {}
  /\ \E l \in out[role].remove :
       /\ labels' = labels \ {l}
       /\ out' = [out EXCEPT ![role].remove = @ \ {l}]
  /\ UNCHANGED <<issue, db, txn, pc, todo, run, taken, faults>>

BackToReconcile(role, applied) ==
  /\ Goto(role, "reconcile")
  /\ Write(role, record_transition(txn[role], out[role].rev, out[role].status, applied))
  /\ out' = [out EXCEPT ![role] = NoOut]
  /\ UNCHANGED <<labels, issue, db, todo, run, taken>>

\* The comment, which ends a transition that was applied.
Applied(role) ==
  /\ Sending(role) /\ out[role].add = {} /\ out[role].remove = {}
  /\ BackToReconcile(role, TRUE)
  /\ UNCHANGED <<taken, faults>>

\* Mutant: a failed transition is taken for an applied one.
ProviderErrorHidden(role) ==
  /\ Sending(role) /\ edits + faults < MaxTrouble
  /\ BackToReconcile(role, TRUE)
  /\ faults' = faults + 1

\* Any call fails: the error is recorded, the other calls are not made.
ProviderError(role) ==
  /\ Sending(role) /\ edits + faults < MaxTrouble
  /\ BackToReconcile(role, FALSE)
  /\ faults' = faults + 1

-----------------------------------------------------------------------------
(* Discovery and starting                                                  *)

\* upsert_work_item and ensure_assignment, if the issue is the role's.
upsert_and_ensure(role, d) ==
  IF ~matches_role(labels, assignees, role) THEN d
  ELSE [d EXCEPT !.seen = rev,
                 !.asg[rev] = IF @ = "none" THEN "due" ELSE @]

\* The issue is new work for the role by its assignees alone.
TakesByAssignee(role, d) ==
  /\ matches_role(labels, assignees, role) /\ labels \cap DEFAULT_ROLE_LABELS(role) = {}
  /\ d.asg[rev] = "none"

Reconciled(role) ==
  \/ pc[role] = "reconcile" /\ todo[role] = {}
  \/ pc[role] = "idle" /\ active_runs(db[role]) = {}

\* A tick discovers at most one assignment for the issue and starts it, so that at
\* most one is due at a time; with none due it ends here.
pending_assignments(d) == {v \in Rev : d.asg[v] = "due"}

Discover(role) ==
  LET d == upsert_and_ensure(role, txn[role])
  IN /\ Reconciled(role)
     /\ \/ pending_assignments(d) = {} /\ Commit(role, d, run[role])
        \/ /\ pending_assignments(d) # {}
           /\ Write(role, d) /\ Goto(role, "start")
           /\ UNCHANGED <<db, todo, out, run>>
     /\ taken' = (taken \/ TakesByAssignee(role, txn[role]))
     /\ UNCHANGED <<labels, issue, faults>>

\* submit_run and mark_assignment_started, whatever the issue's labels are by now.
Start(role) ==
  /\ pc[role] = "start"
  /\ \E v \in pending_assignments(txn[role]) :
       Commit(role, [txn[role] EXCEPT !.asg[v] = "STARTED"], [run[role] EXCEPT ![v] = "running"])
  /\ UNCHANGED <<labels, issue, taken, faults>>

\* A command that fails or is killed: the database is as before, the issue is not, and
\* the next tick does the same again.  Discovery and submit_run raise on any error.
Rollback(role) ==
  /\ pc[role] # "idle" /\ edits + faults < MaxTrouble
  /\ Close(role) /\ Write(role, db[role])
  /\ faults' = faults + 1
  /\ UNCHANGED <<labels, issue, db, run, taken>>

-----------------------------------------------------------------------------
(* The gateways, and people                                                *)

GatewayFinishes(role, v) ==
  /\ run[role][v] = "running"
  /\ \E s \in Outcomes \cap (Verdict(role) \cup {"failed"}) : run' = [run EXCEPT ![role][v] = s]
  /\ UNCHANGED <<labels, issue, db, tick, taken, faults>>

\* The run's row grows older than run_timeout_seconds: while the agent works, or while
\* its result waits for a tick.
RunAges(role, v) ==
  /\ db[role].asg[v] = "STARTED" /\ run[role][v] \notin Overdue
  /\ run' = [run EXCEPT ![role][v] = IF @ = "running" THEN "overdue" ELSE "ended, overdue"]
  /\ UNCHANGED <<labels, issue, db, tick, taken, faults>>

EditIssue ==
  /\ edits + faults < MaxTrouble
  /\ \E v \in Rev \ {rev} :
       /\ v <= newest + 1
       /\ rev' = v
       /\ newest' = IF v > newest THEN v ELSE newest
       /\ reverted' = (reverted \/ v < newest)
  /\ edits' = edits + 1
  /\ UNCHANGED <<labels, assignees, db, tick, run, taken, faults>>

AssignIssue ==
  /\ edits + faults < MaxTrouble
  /\ \E role \in Accounts :
       assignees' = IF role \in assignees THEN assignees \ {role} ELSE assignees \cup {role}
  /\ edits' = edits + 1
  /\ UNCHANGED <<labels, rev, newest, reverted, db, tick, run, taken, faults>>

-----------------------------------------------------------------------------
NewDatabase == [seen |-> 0, asg |-> [v \in Rev |-> "none"], rows |-> {}]

Init ==
  /\ labels = DEFAULT_ROLE_LABELS(First) /\ assignees = {} /\ taken = FALSE
  /\ rev = 1 /\ newest = 1 /\ reverted = FALSE
  /\ db = [role \in Roles |-> NewDatabase] /\ txn = db
  /\ pc = [role \in Roles |-> "idle"] /\ todo = [role \in Roles |-> {}]
  /\ out = [role \in Roles |-> NoOut]
  /\ run = [role \in Roles |-> [v \in Rev |-> "none"]]
  /\ edits = 0 /\ faults = 0

ReconcileRun(role, v) ==
  \/ CompleteRun(role, v) \/ StaleRun(role, v)
  \/ FailedRun(role, v) \/ StillRunning(role, v)

ProviderCall(role) == AddLabels(role) \/ RemoveLabel(role) \/ Applied(role) \/ ProviderError(role)

RoleStep(role) ==
  \/ Begin(role) \/ ProviderCall(role) \/ Discover(role) \/ Start(role)
  \/ \E v \in Rev : ReconcileRun(role, v)

EnvironmentStep(role) ==
  \/ Rollback(role)
  \/ \E v \in Rev : GatewayFinishes(role, v) \/ RunAges(role, v)

Next ==
  \/ (\E role \in Roles : RoleStep(role) \/ EnvironmentStep(role))
  \/ EditIssue \/ AssignIssue

Spec == Init /\ [][Next]_vars

(***************************************************************************)
(* Fairness: cron starts every role's tick over and over and its steps are *)
(* taken; a run ends or grows older than run_timeout_seconds, since the    *)
(* clock advances.  Discovery, submissions and provider calls fail only    *)
(* finitely often (MaxTrouble).  Nothing is assumed of the agents.          *)
(***************************************************************************)
Fairness ==
  /\ \A role \in Roles : WF_vars(RoleStep(role))
  /\ WF_vars(\E role \in Roles, v \in Rev : RunAges(role, v))

FairSpec == Spec /\ Fairness

-----------------------------------------------------------------------------
(* Properties                                                              *)

\* The role's agent works on content v, or may still do so.
Working(role, v) == db[role].asg[v] = "STARTED" /\ run[role][v] \in {"running", "overdue"}

\* Agents of two roles never work on the same content of an issue at the same time,
\* although between the calls of a hand-over the issue has the labels of both: as long
\* as no provider call failed half-way, no command was rolled back, the issue was not
\* edited back to an old content, and no role took it up by its assignees alone (an
\* issue with the builder's labels that is assigned to hermes-reviewer is both roles').
Undisturbed == faults = 0 /\ ~reverted /\ ~taken
OneRolePerRevision ==
  Undisturbed =>
    \A p, q \in Roles, v \in Rev : Working(p, v) /\ Working(q, v) => p = q

(***************************************************************************)
(* Why: a role has the issue while it has labels of its own that it is not *)
(* about to remove.  The tables of statuses.py give a role's labels to no  *)
(* other role and let only the role itself remove them, so that a          *)
(* hand-over moves the issue on with the call that adds the labels.        *)
(***************************************************************************)
Leaving(role) == IF out[role].add = {} THEN out[role].remove ELSE {}
Holds(role) == (labels \ Leaving(role)) \cap DEFAULT_ROLE_LABELS(role) # {}

\* A transition is in flight exactly while the adapter is called.
SendsTransition == \A role \in Roles : pc[role] = "provider" <=> out[role] # NoOut

\* A role's command and its transaction: an assignment is due only between discovery
\* and its start, and is then the one of the latest content the role has seen.
TickInOrder(role) ==
  /\ pc[role] = "idle" => txn[role] = db[role]
  /\ todo[role] \subseteq active_runs(txn[role])
  /\ active_runs(txn[role]) \subseteq active_runs(db[role])
  /\ \A v \in Rev : txn[role].asg[v] = "due" => pc[role] = "start" /\ v = txn[role].seen

\* Contents are seen in their order.
SeenInOrder(role) ==
  /\ txn[role].seen <= rev
  /\ \A v \in Rev : txn[role].asg[v] # "none" \/ db[role].asg[v] # "none" => v <= txn[role].seen

\* A transition in flight is one of the tables'; labels are removed only after the
\* role's work on the latest content it has seen.
TransitionInOrder(role) ==
  LET o == out[role] IN
  /\ \/ o.add = {} /\ o.remove \subseteq DEFAULT_ROLE_LABELS(role)
     \/ o.add = {"hermes:blocked"} /\ o.remove = {}
     \/ \E s \in Verdict(role) :
          o.add = LabelsToAdd(role, s) /\ o.remove = LabelsToRemove(role, s)
  /\ o.remove # {} =>
       /\ o.rev = txn[role].seen /\ txn[role].asg[o.rev] = "COMPLETED"
       /\ run[role][o.rev] \notin {"running", "overdue"}
       /\ o.add # {} => Holds(role)

\* A role that works on the latest content it has seen, or is about to, has the issue.
WorkHoldsIssue(role) ==
  \A v \in Rev :
    v = txn[role].seen /\ (txn[role].asg[v] \in {"due", "STARTED"} \/ Working(role, v))
      => Holds(role)

OneHolder == \A p, q \in Roles : Holds(p) /\ Holds(q) => p = q

\* Nobody works on what another role is about to start.
StartsAlone ==
  \A p, q \in Roles, v \in Rev :
    pc[q] = "start" /\ txn[q].asg[v] = "due" /\ Working(p, v) => p = q

Ownership ==
  /\ rev = newest /\ OneHolder /\ StartsAlone
  /\ \A role \in Roles : TickInOrder(role) /\ SeenInOrder(role)
                         /\ TransitionInOrder(role) /\ WorkHoldsIssue(role)

PInv == TypeOK /\ SendsTransition /\ (Undisturbed => Ownership /\ OneRolePerRevision)

\* The issue comes to rest: after the last edit no role starts a run or changes a
\* label any more, whatever the labels, so reviewer and builder cannot hand the same
\* content back and forth for ever.
Settles == <>[][FALSE]_<<labels, db, run>>

\* ... and never silently: whenever no role's tick has anything left to do, the issue has
\* a label that stops every role or belongs to a role without a container, or some role's
\* transitions table has a row that was not applied or the reviewer's requested changes
\* (of an earlier content, too: label calls that come late take away what a hand-over of
\* the next content gave).
AtRest ==
  \A role \in Roles :
    /\ pc[role] = "idle" /\ active_runs(db[role]) = {}
    /\ pending_assignments(upsert_and_ensure(role, db[role])) = {}
Explained ==
  \/ labels \cap TERMINAL_LABELS # {}
  \/ \E role \in VALID_ROLES \ Roles : matches_role(labels, assignees, role)
  \/ \E role \in Roles : \E row \in db[role].rows :
       ~row.applied \/ row.status = "REQUEST_CHANGES"
NeverStalls == AtRest => Explained

\* statuses.py: "Reviewer requested changes. Returning to builder.": an issue whose
\* requested changes were applied, and which has the builder's labels, is not left there
\* for ever without the builder working on it.
Returned ==
  /\ \E row \in db["reviewer"].rows : row.status = "REQUEST_CHANGES" /\ row.applied
  /\ matches_role(labels, assignees, "builder")
ReturnsToBuilder == []<>(~Returned \/ \E v \in Rev : Working("builder", v))
=============================================================================
