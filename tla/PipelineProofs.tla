---------------------------- MODULE PipelineProofs ----------------------------
(***************************************************************************)
(* For any roles, contents, outcomes and amount of trouble: the types of   *)
(* Pipeline, and that agents of two roles never work on the same content   *)
(* of an issue as long as nothing disturbs the hand-overs.                 *)
(***************************************************************************)
EXTENDS Pipeline, TLAPS

USE PipelineAssumption

-----------------------------------------------------------------------------
(* The tables of statuses.py.                                              *)

Mine(role) == DEFAULT_ROLE_LABELS(role)

\* No label belongs to two roles, and hermes:blocked to none.
LEMMA LabelsApart ==
  ASSUME NEW p \in VALID_ROLES
  PROVE  /\ Mine(p) # {} /\ Mine(p) \cap TERMINAL_LABELS = {}
         /\ \A q \in VALID_ROLES : q # p => Mine(p) \cap Mine(q) = {}
  <1>1. Mine(p) # {} /\ Mine(p) \cap TERMINAL_LABELS = {}
    BY DEF VALID_ROLES, Mine, DEFAULT_ROLE_LABELS, TERMINAL_LABELS
  <1>2. ASSUME NEW q \in VALID_ROLES, q # p PROVE Mine(p) \cap Mine(q) = {}
    BY <1>2 DEF VALID_ROLES, Mine, DEFAULT_ROLE_LABELS
  <1> QED BY <1>1, <1>2

\* The labels of the roles that hand issues on.
LEMMA RoleLabels ==
  /\ Mine("planner") = {"state:ready-for-planning", "hermes:planner"}
  /\ Mine("builder") = {"state:ready-for-build", "hermes:builder"}
  /\ Mine("reviewer") = {"state:review-needed", "hermes:reviewer"}
  /\ Mine("release") = {"state:ready-for-release", "hermes:release"}
  BY DEF Mine, DEFAULT_ROLE_LABELS

\* The fields of an entry.
LEMMA SpecFields ==
  ASSUME NEW r, NEW s, NEW n, NEW a, NEW d
  PROVE  /\ TransitionSpec(r, s, n, a, d).role = r /\ TransitionSpec(r, s, n, a, d).status = s
         /\ TransitionSpec(r, s, n, a, d).add = a /\ TransitionSpec(r, s, n, a, d).remove = d
  BY DEF TransitionSpec

\* The entries, with their labels by role.
LEMMA Entries ==
  TRANSITIONS =
    {TransitionSpec("planner", "READY_FOR_BUILD", "builder", Mine("builder"), Mine("planner")),
     TransitionSpec("builder", "PR_READY_FOR_REVIEW", "reviewer", Mine("reviewer"), Mine("builder")),
     TransitionSpec("reviewer", "APPROVE", "release", Mine("release"), Mine("reviewer")),
     TransitionSpec("reviewer", "REQUEST_CHANGES", "builder", Mine("builder"), Mine("reviewer")),
     TransitionSpec("release", "NO_ACTION", "", {"state:done"}, Mine("release")),
     TransitionSpec("release", "BLOCKED_NO_ACTION", "", {"hermes:manual-only"}, Mine("release"))}
  BY RoleLabels DEF TRANSITIONS

\* An entry takes all the labels of its role and gives all the labels of another one,
\* or a terminal label.
LEMMA EntryLabels ==
  ASSUME NEW t \in TRANSITIONS
  PROVE  /\ t.remove = Mine(t.role)
         /\ \/ \E n \in VALID_ROLES \ {t.role} : t.add = Mine(n)
            \/ t.add # {} /\ t.add \subseteq TERMINAL_LABELS
  <1>1. CASE t = TransitionSpec("planner", "READY_FOR_BUILD", "builder",
                                Mine("builder"), Mine("planner"))
    BY <1>1 DEF TransitionSpec, VALID_ROLES
  <1>2. CASE t = TransitionSpec("builder", "PR_READY_FOR_REVIEW", "reviewer",
                                Mine("reviewer"), Mine("builder"))
    BY <1>2 DEF TransitionSpec, VALID_ROLES
  <1>3. CASE t = TransitionSpec("reviewer", "APPROVE", "release",
                                Mine("release"), Mine("reviewer"))
    BY <1>3 DEF TransitionSpec, VALID_ROLES
  <1>4. CASE t = TransitionSpec("reviewer", "REQUEST_CHANGES", "builder",
                                Mine("builder"), Mine("reviewer"))
    BY <1>4 DEF TransitionSpec, VALID_ROLES
  <1>5. CASE t = TransitionSpec("release", "NO_ACTION", "", {"state:done"}, Mine("release"))
    BY <1>5 DEF TransitionSpec, TERMINAL_LABELS
  <1>6. CASE t = TransitionSpec("release", "BLOCKED_NO_ACTION", "",
                                {"hermes:manual-only"}, Mine("release"))
    BY <1>6 DEF TransitionSpec, TERMINAL_LABELS
  <1> QED BY <1>1, <1>2, <1>3, <1>4, <1>5, <1>6, Entries

\* No two entries are for the same verdict of a role.
LEMMA EntriesUnique ==
  ASSUME NEW t \in TRANSITIONS, NEW u \in TRANSITIONS, t.role = u.role, t.status = u.status
  PROVE  t = u
  <1> DEFINE a1 == TransitionSpec("planner", "READY_FOR_BUILD", "builder",
                                  Mine("builder"), Mine("planner"))
             a2 == TransitionSpec("builder", "PR_READY_FOR_REVIEW", "reviewer",
                                  Mine("reviewer"), Mine("builder"))
             a3 == TransitionSpec("reviewer", "APPROVE", "release",
                                  Mine("release"), Mine("reviewer"))
             a4 == TransitionSpec("reviewer", "REQUEST_CHANGES", "builder",
                                  Mine("builder"), Mine("reviewer"))
             a5 == TransitionSpec("release", "NO_ACTION", "", {"state:done"}, Mine("release"))
             a6 == TransitionSpec("release", "BLOCKED_NO_ACTION", "",
                                  {"hermes:manual-only"}, Mine("release"))
  <1>1. t \in {a1, a2, a3, a4, a5, a6} /\ u \in {a1, a2, a3, a4, a5, a6}
    BY Entries
  <1>2. /\ a1.role = "planner" /\ a2.role = "builder"
        /\ a3.role = "reviewer" /\ a3.status = "APPROVE"
        /\ a4.role = "reviewer" /\ a4.status = "REQUEST_CHANGES"
        /\ a5.role = "release" /\ a5.status = "NO_ACTION"
        /\ a6.role = "release" /\ a6.status = "BLOCKED_NO_ACTION"
    BY DEF TransitionSpec
  <1> HIDE DEF a1, a2, a3, a4, a5, a6
  <1> QED BY <1>1, <1>2

\* What a verdict does to the labels: the role's are taken and another role's given,
\* or no role is given anything.
LEMMA Verdicts ==
  ASSUME NEW role \in VALID_ROLES, NEW s
  PROVE  /\ LabelsToRemove(role, s) \in {{}, Mine(role)}
         /\ LabelsToAdd(role, s) = {} => LabelsToRemove(role, s) = {}
         /\ \/ \E n \in VALID_ROLES \ {role} :
                 LabelsToAdd(role, s) = Mine(n) /\ LabelsToRemove(role, s) = Mine(role)
            \/ LabelsToAdd(role, s) \subseteq TERMINAL_LABELS
  <1>1. CASE Routes(role, s) = {}
    <2>1. LabelsToRemove(role, s) = {} /\ LabelsToAdd(role, s) \in {{}, {"hermes:blocked"}}
      BY <1>1 DEF LabelsToRemove, LabelsToAdd
    <2> QED BY <2>1 DEF TERMINAL_LABELS
  <1>2. CASE Routes(role, s) # {}
    <2>1. PICK t \in TRANSITIONS : t.role = role /\ Routes(role, s) = {t}
      BY <1>2, EntriesUnique DEF Routes
    <2>2. LabelsToRemove(role, s) = t.remove /\ LabelsToAdd(role, s) = t.add
      BY <2>1 DEF LabelsToRemove, LabelsToAdd
    <2>3. Mine(role) # {} /\ \A n \in VALID_ROLES : Mine(n) # {}
      BY LabelsApart
    <2> QED BY <2>1, <2>2, <2>3, EntryLabels
  <1> QED BY <1>1, <1>2

\* No verdict is one of the other states of a run.
LEMMA VerdictsApart ==
  ASSUME NEW role \in VALID_ROLES
  PROVE  Verdict(role) \cap ({"none", "running", "failed"} \cup Overdue) = {}
  <1> SUFFICES ASSUME NEW s \in Verdict(role)
               PROVE  s \notin {"none", "running", "failed"} /\ s \notin Overdue
    OBVIOUS
  <1>1. CASE role = "project-manager"
    BY <1>1 DEF Verdict, ROLE_FINAL_STATUSES, Overdue
  <1>2. CASE role \in {"planner", "builder", "reviewer"}
    BY <1>2 DEF Verdict, ROLE_FINAL_STATUSES, Overdue
  <1>3. CASE role \in {"release", "incident", "learning"}
    BY <1>3 DEF Verdict, ROLE_FINAL_STATUSES, Overdue
  <1> QED BY <1>1, <1>2, <1>3 DEF VALID_ROLES

\* Labels that a transition adds and removes are labels.
LEMMA LabelTypes ==
  ASSUME NEW role \in Roles, NEW s
  PROVE  /\ Mine(role) \subseteq Label /\ {"hermes:blocked"} \subseteq Label
         /\ LabelsToAdd(role, s) \subseteq Label /\ LabelsToRemove(role, s) \subseteq Label
  <1> DEFINE own == UNION {DEFAULT_ROLE_LABELS(r) : r \in Roles}
             all == UNION {t.add \cup t.remove : t \in TRANSITIONS}
  <1>1. Mine(role) \subseteq own
    BY DEF Mine
  <1>2. \A t \in TRANSITIONS : t.add \subseteq all /\ t.remove \subseteq all
    <2>1. \A t \in TRANSITIONS : t.add \cup t.remove \subseteq all
      OBVIOUS
    <2> QED BY <2>1
  <1>3. Label = own \cup TERMINAL_LABELS \cup all
    BY DEF Label
  <1> HIDE DEF own, all
  <1>4. "hermes:blocked" \in TERMINAL_LABELS
    BY DEF TERMINAL_LABELS
  <1>5. \A t \in Routes(role, s) : t.add \subseteq Label /\ t.remove \subseteq Label
    BY <1>2, <1>3 DEF Routes
  <1>6. LabelsToRemove(role, s) \subseteq Label
    BY <1>5 DEF LabelsToRemove
  <1>7. LabelsToAdd(role, s) \subseteq Label
    BY <1>3, <1>4, <1>5 DEF LabelsToAdd
  <1> QED BY <1>1, <1>3, <1>4, <1>6, <1>7
-----------------------------------------------------------------------------
(* Types.                                                                  *)

TInv == TypeOK /\ SendsTransition

\* Changes of a database.
LEMMA DatabaseType ==
  ASSUME NEW d \in Database, NEW v \in Rev
  PROVE  /\ \A a \in Status : [d EXCEPT !.asg[v] = a] \in Database
         /\ \A s \in Reported, b \in BOOLEAN : record_transition(d, v, s, b) \in Database
         /\ \A a \in Status : [d EXCEPT !.seen = v, !.asg[v] = a] \in Database
  <1>1. ASSUME NEW a \in Status
        PROVE  [d EXCEPT !.asg[v] = a] \in Database /\ [d EXCEPT !.seen = v, !.asg[v] = a] \in Database
    <2>1. [d.asg EXCEPT ![v] = a] \in [Rev -> Status] /\ v \in 0..MaxRev
      BY DEF Database, Rev
    <2>2. \A f \in [Rev -> Status], n \in 0..MaxRev :
            [d EXCEPT !.asg = f] \in Database /\ [d EXCEPT !.seen = n, !.asg = f] \in Database
      BY DEF Database
    <2>3. /\ [d EXCEPT !.asg[v] = a] = [d EXCEPT !.asg = [d.asg EXCEPT ![v] = a]]
          /\ [d EXCEPT !.seen = v, !.asg[v] = a] = [d EXCEPT !.seen = v, !.asg = [d.asg EXCEPT ![v] = a]]
      BY DEF Database
    <2> QED BY <2>1, <2>2, <2>3
  <1>2. ASSUME NEW s \in Reported, NEW b \in BOOLEAN
        PROVE  record_transition(d, v, s, b) \in Database
    <2>1. [rev |-> v, status |-> s, applied |-> b] \in Row
      BY DEF Row
    <2> QED BY <2>1 DEF Database, record_transition
  <1> QED BY <1>1, <1>2

\* NoOut is no transition of a content.
LEMMA NoOutApart ==
  /\ 1 \in Rev /\ NoOut \in Outgoing /\ NoOut.rev \notin Rev
  /\ NoOut.add = {} /\ NoOut.remove = {}
  BY DEF Rev, NoOut, Outgoing

LEMMA UpsertType ==
  ASSUME TypeOK, NEW role \in Roles, NEW d \in Database
  PROVE  upsert_and_ensure(role, d) \in Database
  <1>1. rev \in Rev
    BY DEF TypeOK
  <1>2. (IF d.asg[rev] = "none" THEN "due" ELSE d.asg[rev]) \in Status
    BY <1>1 DEF Database, Status
  <1> QED BY <1>1, <1>2, DatabaseType DEF upsert_and_ensure

\* The types of a role's parts.
LEMMA RoleTypes ==
  ASSUME TypeOK, NEW role \in Roles
  PROVE  /\ db[role] \in Database /\ txn[role] \in Database /\ out[role] \in Outgoing
         /\ todo[role] \subseteq Rev /\ run[role] \in [Rev -> RunState]
  BY DEF TypeOK

\* A step that writes one role's transaction, place, cursor and transition.
LEMMA TickType ==
  ASSUME TInv, NEW role \in Roles,
         NEW d \in Database, txn' = [txn EXCEPT ![role] = d],
         NEW l \in {"idle", "reconcile", "provider", "start"}, pc' = [pc EXCEPT ![role] = l],
         NEW t \in SUBSET Rev, todo' = [todo EXCEPT ![role] = t],
         NEW o \in Outgoing, out' = [out EXCEPT ![role] = o], l = "provider" <=> o # NoOut,
         labels' \in SUBSET Label, UNCHANGED issue,
         db' \in [Roles -> Database], run' \in [Roles -> [Rev -> RunState]],
         faults' \in Nat, taken' \in BOOLEAN
  PROVE  TInv'
  <1>1. /\ txn' \in [Roles -> Database] /\ todo' \in [Roles -> SUBSET Rev]
        /\ pc' \in [Roles -> {"idle", "reconcile", "provider", "start"}]
        /\ out' \in [Roles -> Outgoing]
    BY DEF TInv, TypeOK
  <1>2. SendsTransition'
    BY DEF TInv, TypeOK, SendsTransition
  <1>3. TypeOK'
    BY <1>1 DEF TInv, TypeOK, issue
  <1> QED BY <1>2, <1>3 DEF TInv

\* The end of a command.
LEMMA CloseType ==
  ASSUME TInv, NEW role \in Roles, NEW d \in Database, Close(role), Write(role, d),
         UNCHANGED <<labels, issue>>,
         db' \in [Roles -> Database], run' \in [Roles -> [Rev -> RunState]],
         faults' \in Nat, taken' \in BOOLEAN
  PROVE  TInv'
  <1> DEFINE l == "idle"
             t == {}
  <1>1. /\ l \in {"idle", "reconcile", "provider", "start"} /\ t \in SUBSET Rev
        /\ l = "provider" <=> NoOut # NoOut
    OBVIOUS
  <1>2. /\ txn' = [txn EXCEPT ![role] = d] /\ pc' = [pc EXCEPT ![role] = l]
        /\ todo' = [todo EXCEPT ![role] = t] /\ out' = [out EXCEPT ![role] = NoOut]
    BY DEF Close, Write, Goto
  <1>3. labels' \in SUBSET Label
    BY DEF TInv, TypeOK
  <1> HIDE DEF l, t
  <1> QED BY <1>1, <1>2, <1>3, NoOutApart, TickType

\* A commit.
LEMMA CommitType ==
  ASSUME TInv, NEW role \in Roles, NEW d \in Database, NEW runs \in [Rev -> RunState],
         Commit(role, d, runs), UNCHANGED <<labels, issue, faults>>, taken' \in BOOLEAN
  PROVE  TInv'
  <1>1. \A v \in Rev : (IF d.asg[v] \in {"blocked", "COMPLETED"} THEN "none" ELSE runs[v]) \in RunState
    BY DEF RunState
  <1>2. run' \in [Roles -> [Rev -> RunState]]
    BY <1>1 DEF Commit, TInv, TypeOK
  <1>3. db' \in [Roles -> Database]
    BY DEF Commit, TInv, TypeOK
  <1>4. faults' \in Nat
    BY DEF TInv, TypeOK
  <1> QED BY <1>2, <1>3, <1>4, CloseType DEF Commit

LEMMA TypeInit == Init => TInv
  <1> SUFFICES ASSUME Init PROVE TInv
    OBVIOUS
  <1>1. NewDatabase \in Database
    BY DEF NewDatabase, Database, Status, Rev
  <1>2. "none" \in RunState /\ NoOut \in Outgoing
    BY DEF RunState, Outgoing
  <1>3. labels \in SUBSET Label
    BY LabelTypes DEF Init, Mine
  <1> QED BY <1>1, <1>2, <1>3, NoOutApart DEF Init, TInv, TypeOK, SendsTransition

\* The steps of a reconciliation.
LEMMA TypeReconcile ==
  ASSUME TInv, NEW role \in Roles, NEW v \in Rev, ReconcileRun(role, v)
  PROVE  TInv'
  <1> USE DEF TInv
  <1>0. /\ db[role] \in Database /\ txn[role] \in Database /\ todo[role] \ {v} \in SUBSET Rev
        /\ run[role] \in [Rev -> RunState]
    BY RoleTypes
  <1>1. /\ labels \in SUBSET Label /\ faults \in Nat /\ taken \in BOOLEAN
        /\ db \in [Roles -> Database] /\ run \in [Roles -> [Rev -> RunState]]
    BY DEF TypeOK
  <1>2. ASSUME NEW a \in Status, NEW s \in Reported, NEW add \in SUBSET Label,
               NEW remove \in SUBSET Label, Settle(role, v, a, s, add, remove)
        PROVE  TInv'
    <2> DEFINE o == [rev |-> v, status |-> s, add |-> add, remove |-> remove]
               d == [txn[role] EXCEPT !.asg[v] = a]
    <2>1. o \in Outgoing /\ o # NoOut
      <3>1. o \in Outgoing
        BY DEF Outgoing
      <3>2. o.rev # NoOut.rev
        BY DEF NoOut, Rev
      <3> QED BY <3>1, <3>2
    <2>2. d \in Database
      BY <1>0, DatabaseType
    <2>3. /\ txn' = [txn EXCEPT ![role] = d] /\ pc' = [pc EXCEPT ![role] = "provider"]
          /\ todo' = [todo EXCEPT ![role] = todo[role] \ {v}] /\ out' = [out EXCEPT ![role] = o]
          /\ UNCHANGED <<labels, issue, db, run, taken, faults>>
      BY <1>2 DEF Settle, NextRun, Write, Goto
    <2> HIDE DEF o, d, TInv
    <2> QED BY <1>0, <1>1, <2>1, <2>2, <2>3, TickType
  <1>3. ASSUME NEW s \in {"STALE_OUTPUT", "FAILED"}, Fail(role, v, s) PROVE TInv'
    <2>1. "blocked" \in Status /\ s \in Reported /\ {"hermes:blocked"} \in SUBSET Label
      BY LabelTypes DEF Status, Reported
    <2> QED BY <1>2, <1>3, <2>1 DEF Fail
  <1>4. CASE CompleteRun(role, v)
    <2>1. /\ "COMPLETED" \in Status /\ run[role][v] \in Reported
          /\ LabelsToAdd(role, run[role][v]) \in SUBSET Label
          /\ LabelsToRemove(role, run[role][v]) \in SUBSET Label
      BY <1>4, LabelTypes DEF CompleteRun, Status, Reported
    <2> QED BY <1>2, <1>4, <2>1 DEF CompleteRun
  <1>5. CASE StillRunning(role, v)
    <2>1. todo' \in [Roles -> SUBSET Rev]
      BY <1>5 DEF StillRunning, NextRun, TypeOK
    <2> QED BY <1>5, <2>1 DEF StillRunning, TypeOK, SendsTransition, issue
  <1> QED BY <1>3, <1>4, <1>5 DEF ReconcileRun, StaleRun, FailedRun

\* The calls of the adapter.
LEMMA TypeProvider ==
  ASSUME TInv, NEW role \in Roles, ProviderCall(role)
  PROVE  TInv'
  <1>0. /\ txn[role] \in Database /\ out[role] \in Outgoing /\ todo[role] \in SUBSET Rev
        /\ labels \in SUBSET Label /\ faults \in Nat /\ taken \in BOOLEAN /\ NoOut \in Outgoing
        /\ db \in [Roles -> Database] /\ run \in [Roles -> [Rev -> RunState]]
    BY RoleTypes DEF TInv, TypeOK, Outgoing
  <1>1. /\ out[role] # NoOut /\ out[role].rev \in Rev /\ out[role].status \in Reported
        /\ out[role].add \in SUBSET Label /\ out[role].remove \in SUBSET Label
    <2>1. out[role] # NoOut
      BY DEF TInv, SendsTransition, ProviderCall, Sending, AddLabels, RemoveLabel, Applied, ProviderError
    <2> QED BY <1>0, <2>1 DEF Outgoing
  <1>2. ASSUME labels' \in SUBSET Label, out' \in [Roles -> Outgoing],
               \A r \in Roles : out'[r] # NoOut <=> out[r] # NoOut,
               UNCHANGED <<issue, db, txn, pc, todo, run, taken, faults>>
        PROVE  TInv'
    BY <1>2 DEF TInv, TypeOK, SendsTransition, issue
  <1>3. ASSUME NEW o \in Outgoing, o.rev = out[role].rev, out' = [out EXCEPT ![role] = o]
        PROVE  out' \in [Roles -> Outgoing] /\ \A r \in Roles : out'[r] # NoOut <=> out[r] # NoOut
    <2>1. o # NoOut
      BY <1>1, <1>3, NoOutApart
    <2> QED BY <1>1, <1>3, <2>1 DEF TInv, TypeOK
  <1>4. CASE AddLabels(role)
    <2> DEFINE o == [out[role] EXCEPT !.add = {}]
    <2>1. o \in Outgoing /\ o.rev = out[role].rev
      BY <1>0, <1>1 DEF Outgoing
    <2>2. out' = [out EXCEPT ![role] = o]
      BY <1>4 DEF AddLabels
    <2>3. labels' \in SUBSET Label
      BY <1>0, <1>1, <1>4 DEF AddLabels
    <2> HIDE DEF o
    <2> QED BY <1>2, <1>3, <1>4, <2>1, <2>2, <2>3 DEF AddLabels
  <1>5. CASE RemoveLabel(role)
    <2>1. PICK l \in out[role].remove :
            labels' = labels \ {l} /\ out' = [out EXCEPT ![role].remove = @ \ {l}]
      BY <1>5 DEF RemoveLabel
    <2> DEFINE o == [out[role] EXCEPT !.remove = @ \ {l}]
    <2>2. o \in Outgoing /\ o.rev = out[role].rev
      BY <1>0, <1>1 DEF Outgoing
    <2>3. out' = [out EXCEPT ![role] = o]
      BY <2>1
    <2>4. labels' \in SUBSET Label
      BY <1>0, <2>1
    <2> HIDE DEF o
    <2> QED BY <1>2, <1>3, <1>5, <2>2, <2>3, <2>4 DEF RemoveLabel
  <1>6. ASSUME NEW b \in BOOLEAN, BackToReconcile(role, b), faults' \in Nat PROVE TInv'
    <2>1. record_transition(txn[role], out[role].rev, out[role].status, b) \in Database
      BY <1>0, <1>1, DatabaseType
    <2>2. todo' = [todo EXCEPT ![role] = todo[role]]
      BY <1>6 DEF BackToReconcile, TInv, TypeOK
    <2> QED BY <1>0, <1>6, <2>1, <2>2, TickType DEF BackToReconcile, Goto, Write
  <1>7. CASE Applied(role)
    BY <1>0, <1>6, <1>7 DEF Applied
  <1>8. CASE ProviderError(role)
    <2>1. faults' \in Nat
      BY <1>0, <1>8 DEF ProviderError
    <2>2. BackToReconcile(role, FALSE)
      BY <1>8, Zenon DEF ProviderError
    <2> QED BY <1>6, <2>1, <2>2
  <1> QED BY <1>4, <1>5, <1>7, <1>8 DEF ProviderCall

LEMMA TypeNext == TInv /\ [Next]_vars => TInv'
  <1> SUFFICES ASSUME TInv, [Next]_vars PROVE TInv'
    OBVIOUS
  <1>0. /\ labels \in SUBSET Label /\ faults \in Nat /\ taken \in BOOLEAN /\ NoOut \in Outgoing
        /\ db \in [Roles -> Database] /\ run \in [Roles -> [Rev -> RunState]]
        /\ {} \in SUBSET Rev
    BY DEF TInv, TypeOK, Outgoing
  <1>1. ASSUME NEW role \in Roles, Begin(role) PROVE TInv'
    <2>1. active_runs(db[role]) \in SUBSET Rev
      BY DEF active_runs
    <2>2. todo' \in [Roles -> SUBSET Rev] /\ pc' \in [Roles -> {"idle", "reconcile", "provider", "start"}]
      BY <1>1, <2>1 DEF Begin, Goto, TInv, TypeOK
    <2>3. SendsTransition'
      BY <1>1 DEF Begin, Goto, TInv, TypeOK, SendsTransition
    <2> QED BY <1>1, <2>2, <2>3 DEF Begin, TInv, TypeOK, issue
  <1>2. ASSUME NEW role \in Roles, Discover(role) PROVE TInv'
    <2> DEFINE d == upsert_and_ensure(role, txn[role])
    <2>1. d \in Database /\ run[role] \in [Rev -> RunState]
      BY UpsertType, RoleTypes DEF TInv
    <2>t. taken' \in BOOLEAN
      BY <1>0, <1>2 DEF Discover, TakesByAssignee
    <2> HIDE DEF d
    <2>2. CASE Commit(role, d, run[role])
      BY <1>2, <2>1, <2>t, <2>2, CommitType DEF Discover
    <2>3. CASE Write(role, d) /\ Goto(role, "start") /\ UNCHANGED <<db, todo, out, run>>
      <3>1. pc[role] # "provider" /\ out[role] = NoOut
        BY <1>2 DEF Discover, Reconciled, TInv, SendsTransition
      <3>2. todo' = [todo EXCEPT ![role] = todo[role]] /\ out' = [out EXCEPT ![role] = NoOut]
        BY <2>3, <3>1 DEF TInv, TypeOK
      <3>3. todo[role] \in SUBSET Rev /\ UNCHANGED <<labels, issue, faults>>
        BY <1>2, RoleTypes DEF Discover, TInv
      <3> QED BY <1>0, <2>1, <2>t, <2>3, <3>2, <3>3, TickType DEF Write, Goto
    <2> QED BY <1>2, <2>2, <2>3 DEF Discover, d
  <1>3. ASSUME NEW role \in Roles, Start(role) PROVE TInv'
    <2>1. PICK v \in pending_assignments(txn[role]) :
            Commit(role, [txn[role] EXCEPT !.asg[v] = "STARTED"], [run[role] EXCEPT ![v] = "running"])
      BY <1>3 DEF Start
    <2>2. v \in Rev
      BY DEF pending_assignments
    <2>3. [txn[role] EXCEPT !.asg[v] = "STARTED"] \in Database
      BY <2>2, DatabaseType, RoleTypes DEF TInv, Status
    <2>4. [run[role] EXCEPT ![v] = "running"] \in [Rev -> RunState]
      BY <2>2, RoleTypes DEF TInv, RunState
    <2> QED BY <1>0, <1>3, <2>1, <2>3, <2>4, CommitType DEF Start
  <1>4. ASSUME NEW role \in Roles, Rollback(role) PROVE TInv'
    <2>1. db[role] \in Database
      BY RoleTypes DEF TInv
    <2>2. /\ faults' \in Nat /\ taken' \in BOOLEAN /\ Close(role) /\ Write(role, db[role])
          /\ UNCHANGED <<labels, issue, db, run>>
      BY <1>0, <1>4 DEF Rollback
    <2> QED BY <1>0, <2>1, <2>2, CloseType
  <1>5. ASSUME NEW role \in Roles, NEW v \in Rev, NEW s \in RunState,
               run' = [run EXCEPT ![role][v] = s], UNCHANGED <<labels, issue, db, tick, taken, faults>>
        PROVE  TInv'
    <2>1. run' \in [Roles -> [Rev -> RunState]]
      BY <1>0, <1>5
    <2> QED BY <1>5, <2>1 DEF TInv, TypeOK, SendsTransition, tick, issue
  <1>6. ASSUME NEW role \in Roles, NEW v \in Rev, GatewayFinishes(role, v) PROVE TInv'
    <2>1. \A s \in Verdict(role) \cup {"failed"} : s \in RunState
      BY DEF RunState
    <2> QED BY <1>5, <1>6, <2>1 DEF GatewayFinishes
  <1>7. ASSUME NEW role \in Roles, NEW v \in Rev, RunAges(role, v) PROVE TInv'
    <2>1. "overdue" \in RunState /\ "ended, overdue" \in RunState
      BY DEF RunState, Overdue
    <2> QED BY <1>5, <1>7, <2>1 DEF RunAges
  <1>8. CASE EditIssue
    BY <1>8 DEF EditIssue, TInv, TypeOK, SendsTransition, tick
  <1>a. CASE AssignIssue
    <2>1. assignees' \in SUBSET Accounts
      BY <1>a DEF AssignIssue, TInv, TypeOK
    <2> QED BY <1>a, <2>1 DEF AssignIssue, TInv, TypeOK, SendsTransition, tick
  <1>9. CASE UNCHANGED vars
    BY <1>9 DEF vars, TInv, TypeOK, SendsTransition, tick, issue
  <1>10. ASSUME NEW role \in Roles, RoleStep(role) PROVE TInv'
    BY <1>1, <1>2, <1>3, <1>10, TypeReconcile, TypeProvider DEF RoleStep
  <1> QED BY <1>4, <1>6, <1>7, <1>8, <1>a, <1>9, <1>10 DEF Next, EnvironmentStep

\* The variables have their types, whatever is disturbed.
THEOREM TypesHold == Spec => []TypeOK
  BY TypeInit, TypeNext, PTL DEF Spec, TInv
-----------------------------------------------------------------------------
(* Who has the issue.                                                      *)

Owned == Ownership /\ OneRolePerRevision

\* A step after which nothing is disturbed yet is no fault, no edit back, and takes up
\* no content by its assignees alone.
LEMMA Calm ==
  ASSUME TInv, [Next]_vars, Undisturbed'
  PROVE  /\ Undisturbed
         /\ \A role \in Roles : ~Rollback(role) /\ ~ProviderError(role)
  <1>0. faults \in Nat /\ faults' = 0 /\ ~reverted' /\ ~taken'
    BY DEF TInv, TypeOK, Undisturbed
  <1>1. ASSUME NEW role \in Roles PROVE ~Rollback(role) /\ ~ProviderError(role)
    <2>1. faults' # faults + 1
      BY <1>0
    <2> QED BY <2>1 DEF Rollback, ProviderError
  <1>2. CASE UNCHANGED <<faults, reverted, taken>>
    <2>1. faults = 0 /\ ~reverted /\ ~taken
      BY <1>0, <1>2
    <2> QED BY <1>1, <2>1 DEF Undisturbed
  <1>3. CASE EditIssue
    <2>1. faults = 0 /\ ~taken
      BY <1>0, <1>3 DEF EditIssue
    <2>2. \E v : reverted' = (reverted \/ v < newest)
      BY <1>3 DEF EditIssue
    <2>3. ~reverted
      BY <1>0, <2>2, Zenon
    <2> QED BY <1>1, <2>1, <2>3 DEF Undisturbed
  <1>4. ASSUME NEW role \in Roles, Discover(role) PROVE Undisturbed
    <2>1. faults = 0 /\ ~reverted
      BY <1>0, <1>4 DEF Discover, issue
    <2>2. taken' = (taken \/ TakesByAssignee(role, txn[role]))
      BY <1>4 DEF Discover
    <2>3. ~taken
      BY <1>0, <2>2, Zenon
    <2> QED BY <2>1, <2>3 DEF Undisturbed
  <1>5. ASSUME NEW role \in Roles, RoleStep(role), ~Discover(role)
        PROVE  UNCHANGED <<faults, reverted, taken>>
    <2>1. ASSUME NEW v \in Rev, ReconcileRun(role, v) PROVE UNCHANGED <<faults, reverted, taken>>
      BY <2>1 DEF ReconcileRun, CompleteRun, StaleRun, FailedRun, StillRunning, Fail, Settle, issue
    <2>2. CASE ProviderCall(role)
      BY <1>1, <2>2 DEF ProviderCall, AddLabels, RemoveLabel, Applied, BackToReconcile, issue
    <2> QED BY <1>5, <2>1, <2>2 DEF RoleStep, Begin, Start, issue
  <1>6. ASSUME NEW role \in Roles, EnvironmentStep(role) PROVE UNCHANGED <<faults, reverted, taken>>
    BY <1>1, <1>6 DEF EnvironmentStep, GatewayFinishes, RunAges, issue
  <1>7. CASE AssignIssue
    BY <1>2, <1>7 DEF AssignIssue
  <1>8. CASE UNCHANGED vars
    BY <1>2, <1>8 DEF vars, issue
  <1> QED BY <1>1, <1>2, <1>3, <1>4, <1>5, <1>6, <1>7, <1>8 DEF Next

\* A role that has nothing to remove has the issue as long as its labels stay.
LEMMA SameHolds ==
  ASSUME NEW r, labels' = labels, Leaving(r)' = Leaving(r)
  PROVE  Holds(r)' <=> Holds(r)
  BY DEF Holds

LEMMA NothingLeaves ==
  ASSUME NEW r, out[r].remove = {}
  PROVE  Leaving(r) = {}
  BY DEF Leaving

\* A role that finds the issue by a label has it.
LEMMA FoundIsHeld ==
  ASSUME NEW role \in Roles, out[role] = NoOut, labels \cap DEFAULT_ROLE_LABELS(role) # {}
  PROVE  Holds(role)
  <1>0. out[role].remove = {}
    BY NoOutApart
  <1>1. Leaving(role) = {}
    BY <1>0, NothingLeaves
  <1> QED BY <1>1 DEF Holds

\* What concerns the other roles, when a step changes the parts of one role only and
\* takes the issue from nobody else.
LEMMA Others ==
  ASSUME Ownership, NEW r \in Roles, rev' = rev,
         /\ db'[r] = db[r] /\ txn'[r] = txn[r] /\ pc'[r] = pc[r]
         /\ todo'[r] = todo[r] /\ out'[r] = out[r] /\ run'[r] = run[r],
         Holds(r) => Holds(r)'
  PROVE  TickInOrder(r)' /\ SeenInOrder(r)' /\ TransitionInOrder(r)' /\ WorkHoldsIssue(r)'
  <1>1. TickInOrder(r) /\ SeenInOrder(r) /\ TransitionInOrder(r) /\ WorkHoldsIssue(r)
    BY DEF Ownership
  <1>2. TickInOrder(r)'
    BY <1>1 DEF TickInOrder, active_runs
  <1>3. SeenInOrder(r)'
    BY <1>1 DEF SeenInOrder
  <1>4. TransitionInOrder(r)'
    BY <1>1 DEF TransitionInOrder
  <1>5. WorkHoldsIssue(r)'
    BY <1>1 DEF WorkHoldsIssue, Working
  <1> QED BY <1>2, <1>3, <1>4, <1>5

\* A step of one role keeps all, if it keeps what concerns the role, starts nothing
\* that was not due, and makes nothing due that another role works on.
LEMMA Assemble ==
  ASSUME TInv, Owned, Undisturbed, NEW role \in Roles, UNCHANGED <<rev, newest>>,
         \A r \in Roles \ {role} :
           /\ db'[r] = db[r] /\ txn'[r] = txn[r] /\ pc'[r] = pc[r]
           /\ todo'[r] = todo[r] /\ out'[r] = out[r] /\ run'[r] = run[r]
           /\ Holds(r) => Holds(r)',
         OneHolder',
         TickInOrder(role)', SeenInOrder(role)', TransitionInOrder(role)', WorkHoldsIssue(role)',
         \A v \in Rev : Working(role, v)' =>
           Working(role, v) \/ (pc[role] = "start" /\ txn[role].asg[v] = "due"),
         \A v \in Rev : pc'[role] = "start" /\ txn'[role].asg[v] = "due" =>
           \/ pc[role] = "start" /\ txn[role].asg[v] = "due"
           \/ \A p \in Roles \ {role} : ~Working(p, v)
  PROVE  Owned'
  <1>1. \A r \in Roles : TickInOrder(r)' /\ SeenInOrder(r)' /\ TransitionInOrder(r)' /\ WorkHoldsIssue(r)'
    BY Others DEF Owned
  <1>2. \A r \in Roles \ {role}, v \in Rev : Working(r, v)' <=> Working(r, v)
    BY DEF Working
  <1>3. ASSUME NEW q \in Roles \ {role}, NEW v \in Rev,
               pc[role] = "start", txn[role].asg[v] = "due"
        PROVE  ~Working(q, v) /\ ~(pc[q] = "start" /\ txn[q].asg[v] = "due")
    <2>1. ~Working(q, v)
      BY <1>3 DEF Owned, Ownership, StartsAlone
    <2>2. \A r \in Roles : txn[r].asg[v] = "due" => Holds(r)
      BY DEF Owned, Ownership, TickInOrder, WorkHoldsIssue
    <2> QED BY <1>3, <2>1, <2>2 DEF Owned, Ownership, OneHolder
  <1>4. StartsAlone'
    <2> SUFFICES ASSUME NEW p \in Roles, NEW q \in Roles, NEW v \in Rev, p # q,
                        pc'[q] = "start", txn'[q].asg[v] = "due", Working(p, v)'
                 PROVE  FALSE
      BY DEF StartsAlone
    <2>1. CASE q = role
      BY <1>2, <2>1 DEF Owned, Ownership, StartsAlone
    <2>2. CASE p = role
      BY <1>3, <2>2 DEF Owned, Ownership, StartsAlone
    <2>3. CASE p # role /\ q # role
      BY <1>2, <2>3 DEF Owned, Ownership, StartsAlone
    <2> QED BY <2>1, <2>2, <2>3
  <1>5. OneRolePerRevision'
    <2> SUFFICES ASSUME NEW p \in Roles, NEW q \in Roles, NEW v \in Rev, p # q, p # role,
                        Working(p, v)', Working(q, v)'
                 PROVE  FALSE
      BY DEF OneRolePerRevision
    <2>1. CASE q = role
      BY <1>2, <1>3, <2>1 DEF Owned, OneRolePerRevision
    <2>2. CASE q # role
      BY <1>2, <2>2 DEF Owned, OneRolePerRevision
    <2> QED BY <2>1, <2>2
  <1> QED BY <1>1, <1>4, <1>5 DEF Owned, Ownership

\* No transition in flight is in order.
LEMMA NoTransition ==
  ASSUME NEW role \in Roles, out'[role] = NoOut
  PROVE  TransitionInOrder(role)' /\ Leaving(role)' = {}
  <1>1. out'[role].add = {} /\ out'[role].remove = {}
    BY NoOutApart
  <1> QED BY <1>1 DEF TransitionInOrder, Leaving

\* A step changes no other role's parts.
Only(role) ==
  \A r \in Roles \ {role} :
    /\ db'[r] = db[r] /\ txn'[r] = txn[r] /\ pc'[r] = pc[r]
    /\ todo'[r] = todo[r] /\ out'[r] = out[r] /\ run'[r] = run[r]

\* A step of one role that leaves the labels alone.
LEMMA TickStep ==
  ASSUME TInv, Owned, Undisturbed, NEW role \in Roles, UNCHANGED <<labels, issue>>, Only(role),
         Leaving(role)' = Leaving(role), TransitionInOrder(role)',
         TickInOrder(role)', SeenInOrder(role)',
         \A v \in Rev : v = txn'[role].seen /\ txn'[role].asg[v] \in {"due", "STARTED"} => Holds(role),
         \A v \in Rev : Working(role, v)' =>
           /\ Working(role, v) \/ (pc[role] = "start" /\ txn[role].asg[v] = "due")
           /\ v = txn'[role].seen => Holds(role),
         \A v \in Rev : pc'[role] = "start" /\ txn'[role].asg[v] = "due" =>
           \A p \in Roles \ {role} : ~Working(p, v)
  PROVE  Owned'
  <1>1. \A r \in Roles : Holds(r)' <=> Holds(r)
    <2>1. \A r \in Roles \ {role} : Leaving(r)' = Leaving(r)
      BY DEF Leaving, Only
    <2> QED BY <2>1, SameHolds
  <1>2. OneHolder'
    BY <1>1 DEF Owned, Ownership, OneHolder
  <1>3. UNCHANGED <<rev, newest>>
    BY DEF issue
  <1>4. WorkHoldsIssue(role)'
    BY <1>1 DEF WorkHoldsIssue
  <1> QED BY <1>1, <1>2, <1>3, <1>4, Assemble DEF Only

\* What is known of a role before a step.
LEMMA Before ==
  ASSUME TInv, Owned, NEW role \in Roles
  PROVE  /\ db[role] \in Database /\ txn[role] \in Database /\ todo[role] \subseteq Rev
         /\ TickInOrder(role) /\ SeenInOrder(role) /\ TransitionInOrder(role) /\ WorkHoldsIssue(role)
         /\ pc[role] # "provider" => out[role] = NoOut /\ Leaving(role) = {}
         /\ db = [db EXCEPT ![role] = db[role]] /\ txn = [txn EXCEPT ![role] = txn[role]]
         /\ pc = [pc EXCEPT ![role] = pc[role]] /\ todo = [todo EXCEPT ![role] = todo[role]]
         /\ out = [out EXCEPT ![role] = out[role]] /\ run = [run EXCEPT ![role] = run[role]]
  <1>1. db[role] \in Database /\ txn[role] \in Database /\ todo[role] \subseteq Rev
    BY RoleTypes DEF TInv
  <1>2. TickInOrder(role) /\ SeenInOrder(role) /\ TransitionInOrder(role) /\ WorkHoldsIssue(role)
    BY DEF Owned, Ownership
  <1>3. pc[role] # "provider" => out[role] = NoOut
    BY DEF TInv, SendsTransition
  <1>4. out[role] = NoOut => Leaving(role) = {}
    BY NoOutApart, NothingLeaves
  <1>5. /\ db = [db EXCEPT ![role] = db[role]] /\ txn = [txn EXCEPT ![role] = txn[role]]
        /\ pc = [pc EXCEPT ![role] = pc[role]] /\ todo = [todo EXCEPT ![role] = todo[role]]
        /\ out = [out EXCEPT ![role] = out[role]] /\ run = [run EXCEPT ![role] = run[role]]
    BY DEF TInv, TypeOK
  <1> QED BY <1>1, <1>2, <1>3, <1>4, <1>5

\* The start of a tick with runs to reconcile.
LEMMA BeginKeeps ==
  ASSUME TInv, Owned, Undisturbed, NEW role \in Roles, Begin(role)
  PROVE  Owned'
  <1>0. pc[role] = "idle" /\ txn[role] = db[role] /\ out[role] = NoOut
    BY Before DEF Begin, TickInOrder
  <1>1. /\ UNCHANGED <<labels, issue, db, txn, out, run>> /\ Only(role)
        /\ pc'[role] = "reconcile" /\ todo'[role] = active_runs(db[role])
    BY DEF Begin, Goto, Only, TInv, TypeOK
  <1>2. Leaving(role)' = Leaving(role) /\ TransitionInOrder(role)'
    BY <1>0, <1>1, Before, NoTransition
  <1>3. TickInOrder(role)'
    BY <1>0, <1>1, Before DEF TickInOrder, active_runs
  <1>4. SeenInOrder(role)'
    BY <1>1, Before DEF SeenInOrder, issue
  <1>5. \A v \in Rev : /\ Working(role, v)' => Working(role, v)
                       /\ v = txn'[role].seen /\ (txn'[role].asg[v] \in {"due", "STARTED"} \/ Working(role, v)')
                            => Holds(role)
    BY <1>1, Before DEF WorkHoldsIssue, Working
  <1> QED BY <1>1, <1>2, <1>3, <1>4, <1>5, TickStep

\* The end of a run in the transaction: a run to reconcile is settled and its
\* transition sent.
LEMMA SettleKeeps ==
  ASSUME TInv, Owned, Undisturbed, NEW role \in Roles, NEW v \in Rev, Reconciling(role, v),
         NEW a \in {"blocked", "COMPLETED"}, NEW s, NEW add, NEW remove,
         Settle(role, v, a, s, add, remove),
         \/ add = {"hermes:blocked"} /\ remove = {}
         \/ /\ \E w \in Verdict(role) :
                 add = LabelsToAdd(role, w) /\ remove = LabelsToRemove(role, w)
            /\ a = "COMPLETED" /\ v = txn[role].seen
            /\ run[role][v] \notin {"running", "overdue"}
  PROVE  Owned'
  <1> DEFINE d == txn'[role]
  <1>0. pc[role] = "reconcile" /\ v \in todo[role] /\ txn[role].asg[v] = "STARTED"
    BY Before DEF Reconciling, TickInOrder, active_runs
  <1>1. /\ UNCHANGED <<labels, issue, db, run>> /\ Only(role)
        /\ d = [txn[role] EXCEPT !.asg[v] = a]
        /\ pc'[role] = "provider" /\ todo'[role] = todo[role] \ {v}
        /\ out'[role] = [rev |-> v, status |-> s, add |-> add, remove |-> remove]
    BY DEF Settle, NextRun, Write, Goto, Only, TInv, TypeOK
  <1>2. /\ d.seen = txn[role].seen /\ d.asg[v] = a
        /\ \A u \in Rev \ {v} : d.asg[u] = txn[role].asg[u]
    <2>1. txn[role] \in Database
      BY Before
    <2> QED BY <1>1, <2>1 DEF Database
  <1>3. out'[role].rev = v /\ out'[role].add = add /\ out'[role].remove = remove
    BY <1>1
  <1>4. add = {} => remove = {}
    BY Verdicts
  <1> HIDE DEF d
  <1>5. Leaving(role)' = Leaving(role)
    <2>1. Leaving(role)' = {}
      BY <1>3, <1>4 DEF Leaving
    <2> QED BY <1>0, <2>1, Before
  <1>6. TransitionInOrder(role)'
    <2>1. remove # {} => /\ v = d.seen /\ d.asg[v] = "COMPLETED"
                         /\ run[role][v] \notin {"running", "overdue"} /\ Holds(role)
      BY <1>0, <1>2, Before DEF WorkHoldsIssue
    <2>2. Holds(role) => Holds(role)'
      BY <1>1, <1>5, SameHolds
    <2>3. \/ add = {"hermes:blocked"} /\ remove = {}
          \/ \E w \in Verdict(role) : add = LabelsToAdd(role, w) /\ remove = LabelsToRemove(role, w)
      OBVIOUS
    <2> QED BY <1>1, <1>3, <2>1, <2>2, <2>3 DEF TransitionInOrder, d
  <1>7. TickInOrder(role)'
    <2>1. todo[role] \ {v} \subseteq active_runs(d) /\ active_runs(d) \subseteq active_runs(db[role])
      BY <1>2, Before DEF active_runs, TickInOrder
    <2>2. \A u \in Rev : d.asg[u] # "due"
      BY <1>0, <1>2, Before DEF TickInOrder
    <2> QED BY <1>1, <2>1, <2>2 DEF TickInOrder, active_runs, d
  <1>8. SeenInOrder(role)'
    <2>1. rev' = rev /\ db' = db
      BY <1>1 DEF issue
    <2>2. d.seen <= rev /\ \A u \in Rev : d.asg[u] # "none" \/ db[role].asg[u] # "none" => u <= d.seen
      BY <1>0, <1>2, Before DEF SeenInOrder
    <2> QED BY <2>1, <2>2 DEF SeenInOrder, d
  <1>9. \A u \in Rev : /\ Working(role, u)' => Working(role, u)
                       /\ u = d.seen /\ (d.asg[u] \in {"due", "STARTED"} \/ Working(role, u)')
                            => Holds(role)
    BY <1>1, <1>2, Before DEF WorkHoldsIssue, Working
  <1> QED BY <1>1, <1>5, <1>6, <1>7, <1>8, <1>9, TickStep DEF d

LEMMA ReconcileKeeps ==
  ASSUME TInv, Owned, Undisturbed, NEW role \in Roles, NEW v \in Rev, ReconcileRun(role, v)
  PROVE  Owned'
  <1>1. ASSUME NEW s, Reconciling(role, v), Fail(role, v, s) PROVE Owned'
    BY <1>1, SettleKeeps DEF Fail
  <1>2. CASE CompleteRun(role, v)
    <2>1. run[role][v] \in Verdict(role) /\ run[role][v] \notin {"running", "overdue"}
      BY <1>2, VerdictsApart DEF CompleteRun, Overdue
    <2> QED BY <1>2, <2>1, SettleKeeps DEF CompleteRun
  <1>3. CASE StillRunning(role, v)
    <2>0. pc[role] = "reconcile" /\ out[role] = NoOut
      BY <1>3, Before DEF StillRunning, Reconciling
    <2>1. /\ UNCHANGED <<labels, issue, db, txn, pc, out, run>> /\ Only(role)
          /\ todo'[role] = todo[role] \ {v}
      BY <1>3 DEF StillRunning, NextRun, Only, TInv, TypeOK
    <2>2. Leaving(role)' = Leaving(role) /\ TransitionInOrder(role)'
      BY <2>0, <2>1, Before, NoTransition
    <2>3. TickInOrder(role)'
      BY <2>0, <2>1, Before DEF TickInOrder, active_runs
    <2>4. SeenInOrder(role)'
      BY <2>1, Before DEF SeenInOrder, issue
    <2>5. \A u \in Rev :
            /\ Working(role, u)' => Working(role, u)
            /\ u = txn'[role].seen /\ (txn'[role].asg[u] \in {"due", "STARTED"} \/ Working(role, u)')
                 => Holds(role)
      BY <2>1, Before DEF WorkHoldsIssue, Working
    <2> QED BY <2>0, <2>1, <2>2, <2>3, <2>4, <2>5, TickStep
  <1> QED BY <1>1, <1>2, <1>3 DEF ReconcileRun, StaleRun, FailedRun

\* The labels that a role has still to remove are its own.
LEMMA RemovesOwn ==
  ASSUME TInv, Owned, NEW role \in Roles
  PROVE  /\ out[role].remove \subseteq Mine(role)
         /\ out[role].add # {} =>
              \/ out[role].add \subseteq TERMINAL_LABELS
              \/ \E n \in VALID_ROLES \ {role} : out[role].add = Mine(n) /\ out[role].remove = Mine(role)
  <1>1. TransitionInOrder(role) /\ role \in VALID_ROLES
    BY Before
  <1>2. "hermes:blocked" \in TERMINAL_LABELS
    BY DEF TERMINAL_LABELS
  <1>3. CASE out[role].add = {} /\ out[role].remove \subseteq DEFAULT_ROLE_LABELS(role)
    BY <1>3 DEF Mine
  <1>4. CASE out[role].add = {"hermes:blocked"} /\ out[role].remove = {}
    BY <1>2, <1>4
  <1>5. ASSUME NEW w \in Verdict(role), out[role].add = LabelsToAdd(role, w),
               out[role].remove = LabelsToRemove(role, w)
        PROVE  /\ out[role].remove \subseteq Mine(role)
               /\ out[role].add # {} =>
                    \/ out[role].add \subseteq TERMINAL_LABELS
                    \/ \E n \in VALID_ROLES \ {role} :
                         out[role].add = Mine(n) /\ out[role].remove = Mine(role)
    BY <1>1, <1>5, Verdicts
  <1> QED BY <1>1, <1>3, <1>4, <1>5 DEF TransitionInOrder

\* The call that adds labels moves the issue on.
LEMMA AddLabelsKeeps ==
  ASSUME TInv, Owned, Undisturbed, NEW role \in Roles, AddLabels(role)
  PROVE  Owned'
  <1> DEFINE add == out[role].add
             rem == out[role].remove
  <1>0. out[role] \in Outgoing /\ out[role] # NoOut /\ add # {}
    BY RoleTypes DEF AddLabels, Sending, TInv, SendsTransition
  <1>1. /\ labels' = labels \cup add /\ UNCHANGED <<issue, db, txn, pc, todo, run>> /\ Only(role)
        /\ out'[role] = [out[role] EXCEPT !.add = {}]
    BY DEF AddLabels, Only, TInv, TypeOK
  <1>2. out'[role].add = {} /\ out'[role].remove = rem /\ out'[role].rev = out[role].rev
    BY <1>0, <1>1 DEF Outgoing
  <1>3. Leaving(role) = {} /\ Leaving(role)' = rem
    BY <1>0, <1>2 DEF Leaving
  <1>4. rem \subseteq Mine(role)
    BY RemovesOwn
  <1>a. \/ add \subseteq TERMINAL_LABELS
        \/ \E n \in VALID_ROLES \ {role} : add = Mine(n) /\ rem = Mine(role)
    BY <1>0, RemovesOwn
  <1>5. rem # {} => /\ out[role].rev = txn[role].seen /\ txn[role].asg[out[role].rev] = "COMPLETED"
                    /\ run[role][out[role].rev] \notin {"running", "overdue"} /\ Holds(role)
    BY <1>0, Before DEF TransitionInOrder
  <1> HIDE DEF add, rem
  <1>6. \A r \in Roles \ {role} : Leaving(r)' = Leaving(r)
    BY <1>1 DEF Only, Leaving
  <1>7. \A r \in Roles \ {role} : Holds(r) => Holds(r)'
    BY <1>1, <1>6 DEF Holds
  <1>8. rem = {} => (Holds(role) => Holds(role)')
    BY <1>1, <1>3 DEF Holds
  <1>9. TransitionInOrder(role)'
    BY <1>1, <1>2, <1>4, <1>5 DEF TransitionInOrder, Mine
  <1>10. TickInOrder(role)' /\ SeenInOrder(role)'
    BY <1>1, Before DEF TickInOrder, SeenInOrder, active_runs, issue
  <1>11. \A v \in Rev : Working(role, v)' <=> Working(role, v)
    BY <1>1 DEF Working
  <1>12. WorkHoldsIssue(role)'
    <2>1. CASE rem = {}
      BY <1>1, <1>8, <1>11, <2>1, Before DEF WorkHoldsIssue
    <2>2. CASE rem # {}
      BY <1>1, <1>5, <1>11, <2>2 DEF WorkHoldsIssue, Working
    <2> QED BY <2>1, <2>2
  <1>13. OneHolder'
    <2>1. ASSUME NEW r \in Roles, add \cap Mine(r) = {}, Holds(r)' PROVE Holds(r)
      BY <1>1, <1>3, <1>6, <2>1 DEF Holds, Mine
    <2>2. CASE add \subseteq TERMINAL_LABELS
      <3>1. \A r \in Roles : add \cap Mine(r) = {}
        BY <2>2, LabelsApart
      <3> QED BY <2>1, <3>1 DEF Owned, Ownership, OneHolder
    <2>3. ASSUME NEW n \in VALID_ROLES \ {role}, add = Mine(n), rem = Mine(role)
          PROVE  OneHolder'
      <3>1. Holds(role)
        BY <1>5, <2>3, LabelsApart
      <3>2. \A r \in Roles \ {n} : add \cap Mine(r) = {}
        BY <2>3, LabelsApart
      <3>3. ~Holds(role)'
        BY <1>3, <2>3 DEF Holds, Mine
      <3>4. ASSUME NEW r \in Roles, Holds(r)' PROVE r = n
        BY <2>1, <3>1, <3>2, <3>3, <3>4 DEF Owned, Ownership, OneHolder
      <3> QED BY <3>4 DEF OneHolder
    <2> QED BY <1>a, <2>2, <2>3
  <1>14. UNCHANGED <<rev, newest>>
    BY <1>1 DEF issue
  <1>15. \A v \in Rev : pc'[role] = "start" /\ txn'[role].asg[v] = "due" =>
           pc[role] = "start" /\ txn[role].asg[v] = "due"
    BY <1>1
  <1>16. \A r \in Roles \ {role} :
           /\ db'[r] = db[r] /\ txn'[r] = txn[r] /\ pc'[r] = pc[r]
           /\ todo'[r] = todo[r] /\ out'[r] = out[r] /\ run'[r] = run[r]
           /\ Holds(r) => Holds(r)'
    BY <1>1, <1>7 DEF Only
  <1> QED BY <1>9, <1>10, <1>11, <1>12, <1>13, <1>14, <1>15, <1>16, Assemble

\* The calls that remove labels do not.
LEMMA RemoveLabelKeeps ==
  ASSUME TInv, Owned, Undisturbed, NEW role \in Roles, RemoveLabel(role)
  PROVE  Owned'
  <1> DEFINE rem == out[role].remove
  <1>0. out[role] \in Outgoing /\ out[role] # NoOut /\ out[role].add = {}
    BY RoleTypes DEF RemoveLabel, Sending, TInv, SendsTransition
  <1>p. PICK l \in rem : labels' = labels \ {l} /\ out' = [out EXCEPT ![role].remove = @ \ {l}]
    BY DEF RemoveLabel
  <1>1. /\ UNCHANGED <<issue, db, txn, pc, todo, run>> /\ Only(role)
        /\ out'[role] = [out[role] EXCEPT !.remove = rem \ {l}]
    BY <1>p DEF RemoveLabel, Only, TInv, TypeOK
  <1>2. out'[role].add = {} /\ out'[role].remove = rem \ {l} /\ out'[role].rev = out[role].rev
    BY <1>0, <1>1 DEF Outgoing
  <1>3. Leaving(role) = rem /\ Leaving(role)' = rem \ {l}
    BY <1>0, <1>2 DEF Leaving
  <1>4. rem \subseteq Mine(role)
    BY RemovesOwn
  <1>5. /\ out[role].rev = txn[role].seen /\ txn[role].asg[out[role].rev] = "COMPLETED"
        /\ run[role][out[role].rev] \notin {"running", "overdue"}
    BY <1>p, Before DEF TransitionInOrder
  <1> HIDE DEF rem
  <1>6. \A r \in Roles \ {role} : Leaving(r)' = Leaving(r)
    BY <1>1 DEF Only, Leaving
  <1>7. \A r \in Roles : Holds(r)' <=> Holds(r)
    <2>1. ASSUME NEW r \in Roles \ {role} PROVE Holds(r)' <=> Holds(r)
      <3>1. l \notin Mine(r)
        BY <1>4, <1>p, LabelsApart
      <3> QED BY <1>6, <1>p, <3>1 DEF Holds, Mine
    <2>2. labels' \ (rem \ {l}) = labels \ rem
      BY <1>p
    <2>3. Holds(role)' <=> Holds(role)
      BY <1>3, <2>2 DEF Holds
    <2> QED BY <2>1, <2>3
  <1>8. OneHolder'
    BY <1>7 DEF Owned, Ownership, OneHolder
  <1>9. TransitionInOrder(role)'
    BY <1>1, <1>2, <1>4, <1>5 DEF TransitionInOrder, Mine
  <1>10. TickInOrder(role)' /\ SeenInOrder(role)'
    BY <1>1, Before DEF TickInOrder, SeenInOrder, active_runs, issue
  <1>11. \A v \in Rev : Working(role, v)' <=> Working(role, v)
    BY <1>1 DEF Working
  <1>12. WorkHoldsIssue(role)'
    BY <1>1, <1>7, <1>11, Before DEF WorkHoldsIssue
  <1>13. UNCHANGED <<rev, newest>>
    BY <1>1 DEF issue
  <1>14. \A v \in Rev : pc'[role] = "start" /\ txn'[role].asg[v] = "due" =>
           pc[role] = "start" /\ txn[role].asg[v] = "due"
    BY <1>1
  <1>15. \A r \in Roles \ {role} :
           /\ db'[r] = db[r] /\ txn'[r] = txn[r] /\ pc'[r] = pc[r]
           /\ todo'[r] = todo[r] /\ out'[r] = out[r] /\ run'[r] = run[r]
           /\ Holds(r) => Holds(r)'
    BY <1>1, <1>7 DEF Only
  <1> QED BY <1>8, <1>9, <1>10, <1>11, <1>12, <1>13, <1>14, <1>15, Assemble

\* The record of an applied transition.
LEMMA AppliedKeeps ==
  ASSUME TInv, Owned, Undisturbed, NEW role \in Roles, Applied(role)
  PROVE  Owned'
  <1> DEFINE d == txn'[role]
  <1>0. pc[role] = "provider" /\ out[role].add = {} /\ out[role].remove = {}
    BY DEF Applied, Sending
  <1>1. /\ UNCHANGED <<labels, issue, db, todo, run>> /\ Only(role)
        /\ d = record_transition(txn[role], out[role].rev, out[role].status, TRUE)
        /\ pc'[role] = "reconcile" /\ out'[role] = NoOut
    BY DEF Applied, BackToReconcile, Write, Goto, Only, TInv, TypeOK
  <1>2. d.seen = txn[role].seen /\ d.asg = txn[role].asg
    <2>1. txn[role] \in Database
      BY Before
    <2> QED BY <1>1, <2>1 DEF Database, record_transition
  <1>3. Leaving(role)' = Leaving(role) /\ TransitionInOrder(role)'
    BY <1>0, <1>1, NothingLeaves, NoTransition
  <1> HIDE DEF d
  <1>4. TickInOrder(role)'
    <2>1. active_runs(d) = active_runs(txn[role])
      BY <1>2 DEF active_runs
    <2>2. \A v \in Rev : d.asg[v] # "due"
      BY <1>0, <1>2, Before DEF TickInOrder
    <2> QED BY <1>1, <2>1, <2>2, Before DEF TickInOrder, d
  <1>5. SeenInOrder(role)'
    BY <1>1, <1>2, Before DEF SeenInOrder, issue, d
  <1>6. \A v \in Rev : /\ Working(role, v)' => Working(role, v)
                       /\ v = d.seen /\ (d.asg[v] \in {"due", "STARTED"} \/ Working(role, v)')
                            => Holds(role)
    BY <1>1, <1>2, Before DEF WorkHoldsIssue, Working
  <1> QED BY <1>1, <1>3, <1>4, <1>5, <1>6, TickStep DEF d

\* What discovery writes.
LEMMA Upserted ==
  ASSUME TypeOK, NEW role \in Roles, NEW c \in Database, NEW d, d = upsert_and_ensure(role, c)
  PROVE  /\ ~matches_role(labels, assignees, role) => d = c
         /\ matches_role(labels, assignees, role) =>
              /\ d.seen = rev
              /\ \A v \in Rev : d.asg[v] = IF v = rev /\ c.asg[v] = "none" THEN "due" ELSE c.asg[v]
  BY DEF TypeOK, Database, upsert_and_ensure

\* A commit of d at the end of a command; its runs were those of g.
LEMMA CommitKeeps ==
  ASSUME TInv, Owned, Undisturbed, NEW role \in Roles, NEW d \in Database, NEW g,
         Commit(role, d, g), UNCHANGED <<labels, issue>>, pc[role] # "provider",
         \A v \in Rev : d.asg[v] # "due",
         d.seen <= rev, \A v \in Rev : d.asg[v] # "none" => v <= d.seen,
         \A v \in Rev : d.asg[v] = "STARTED" =>
           /\ v = d.seen => Holds(role)
           /\ \/ txn[role].asg[v] = "STARTED" /\ g[v] = run[role][v]
              \/ pc[role] = "start" /\ txn[role].asg[v] = "due"
  PROVE  Owned'
  <1>1. /\ UNCHANGED <<labels, issue>> /\ Only(role)
        /\ db'[role] = d /\ txn'[role] = d /\ pc'[role] = "idle" /\ todo'[role] = {}
        /\ out'[role] = NoOut
        /\ \A v \in Rev :
             run'[role][v] = IF d.asg[v] \in {"blocked", "COMPLETED"} THEN "none" ELSE g[v]
    BY DEF Commit, Close, Write, Goto, Only, TInv, TypeOK
  <1>2. Leaving(role)' = Leaving(role) /\ TransitionInOrder(role)'
    BY <1>1, Before, NoTransition
  <1>3. TickInOrder(role)'
    BY <1>1 DEF TickInOrder
  <1>4. SeenInOrder(role)'
    BY <1>1 DEF SeenInOrder, issue
  <1>5. \A v \in Rev : Working(role, v)' =>
           /\ Working(role, v) \/ (pc[role] = "start" /\ txn[role].asg[v] = "due")
           /\ v = txn'[role].seen => Holds(role)
    <2> SUFFICES ASSUME NEW v \in Rev, Working(role, v)'
                 PROVE  /\ Working(role, v) \/ (pc[role] = "start" /\ txn[role].asg[v] = "due")
                        /\ v = txn'[role].seen => Holds(role)
      OBVIOUS
    <2>1. d.asg[v] = "STARTED" /\ g[v] \in {"running", "overdue"}
      BY <1>1 DEF Working
    <2>2. txn[role].asg[v] = "STARTED" => db[role].asg[v] = "STARTED"
      BY Before DEF TickInOrder, active_runs
    <2> QED BY <1>1, <2>1, <2>2 DEF Working
  <1>6. \A v \in Rev : v = txn'[role].seen /\ txn'[role].asg[v] \in {"due", "STARTED"} => Holds(role)
    BY <1>1
  <1> QED BY <1>1, <1>2, <1>3, <1>4, <1>5, <1>6, TickStep

\* Discovery makes due only what no other role works on: a role that works on the
\* current content has the issue, and so has the one that finds it by a label.  One that
\* finds it by its assignees alone has seen the content before, and writes nothing.
LEMMA DiscoverKeeps ==
  ASSUME TInv, Owned, Undisturbed, Undisturbed', NEW role \in Roles, Discover(role)
  PROVE  Owned'
  <1> DEFINE c == txn[role]
             d == upsert_and_ensure(role, txn[role])
             found == matches_role(labels, assignees, role)
                        /\ labels \cap DEFAULT_ROLE_LABELS(role) # {}
  <1>0. /\ pc[role] \in {"reconcile", "idle"} /\ out[role] = NoOut /\ c \in Database /\ d \in Database
        /\ rev \in Rev /\ \A v \in Rev : c.asg[v] # "due"
    BY Before, UpsertType DEF Discover, Reconciled, TickInOrder, TInv, TypeOK
  <1>1. /\ ~found => d.seen = c.seen /\ \A v \in Rev : d.asg[v] = c.asg[v]
        /\ found =>
             /\ d.seen = rev /\ Holds(role)
             /\ \A v \in Rev : d.asg[v] = IF v = rev /\ c.asg[v] = "none" THEN "due" ELSE c.asg[v]
    <2>1. CASE found
      BY <1>0, <2>1, Upserted, FoundIsHeld DEF TInv
    <2>2. CASE ~matches_role(labels, assignees, role)
      BY <1>0, <2>2, Upserted DEF TInv
    <2>3. CASE matches_role(labels, assignees, role) /\ labels \cap DEFAULT_ROLE_LABELS(role) = {}
      <3>1. taken' = (taken \/ TakesByAssignee(role, c)) /\ ~taken'
        BY DEF Discover, Undisturbed
      <3>2. ~TakesByAssignee(role, c)
        BY <3>1, Zenon
      <3>3. c.asg[rev] # "none"
        BY <2>3, <3>2 DEF TakesByAssignee
      <3>4. rev <= c.seen /\ c.seen <= rev /\ c.seen \in Nat /\ rev \in Nat
        BY <1>0, <3>3, Before DEF SeenInOrder, Database, Rev
      <3>5. c.seen = rev
        BY <3>4
      <3> QED BY <1>0, <2>3, <3>3, <3>5, Upserted DEF TInv
    <2> QED BY <2>1, <2>2, <2>3
  <1> HIDE DEF d, found
  <1>2. c.seen \in Nat /\ d.seen \in Nat /\ rev \in Nat
    BY <1>0 DEF Database, Rev
  <1>3. /\ d.seen <= rev /\ c.seen <= d.seen
        /\ \A v \in Rev : d.asg[v] # "none" \/ db[role].asg[v] # "none" => v <= d.seen
    <2>1. c.seen <= rev /\ \A v \in Rev : c.asg[v] # "none" \/ db[role].asg[v] # "none" => v <= c.seen
      BY Before DEF SeenInOrder
    <2>2. CASE found
      BY <1>1, <1>2, <2>1, <2>2 DEF Rev
    <2>3. CASE ~found
      BY <1>1, <1>2, <2>1, <2>3
    <2> QED BY <2>2, <2>3
  <1>4. \A v \in Rev : /\ d.asg[v] = "STARTED" <=> c.asg[v] = "STARTED"
                       /\ d.asg[v] = "due" => v = rev /\ found /\ v = d.seen
    BY <1>0, <1>1
  <1>5. \A v \in Rev : v = d.seen /\ (d.asg[v] \in {"due", "STARTED"} \/ Working(role, v)) => Holds(role)
    <2>1. CASE found
      BY <1>1, <2>1
    <2>2. CASE ~found
      BY <1>1, <2>2, Before DEF WorkHoldsIssue
    <2> QED BY <2>1, <2>2
  <1>6. CASE pending_assignments(d) = {} /\ Commit(role, d, run[role])
    <2>1. \A v \in Rev : d.asg[v] # "due"
      BY <1>6 DEF pending_assignments
    <2>2. UNCHANGED <<labels, issue>> /\ pc[role] # "provider"
      BY <1>0 DEF Discover
    <2> QED BY <1>0, <1>3, <1>4, <1>5, <1>6, <2>1, <2>2, CommitKeeps
  <1>7. CASE Write(role, d) /\ Goto(role, "start") /\ UNCHANGED <<db, todo, out, run>>
    <2>1. /\ UNCHANGED <<labels, issue, db, todo, out, run>> /\ Only(role)
          /\ txn'[role] = d /\ pc'[role] = "start"
      BY <1>7 DEF Discover, Write, Goto, Only, TInv, TypeOK
    <2>2. Leaving(role)' = Leaving(role) /\ TransitionInOrder(role)'
      BY <1>0, <2>1, Before, NoTransition
    <2>3. TickInOrder(role)'
      <3>1. active_runs(d) = active_runs(c)
        BY <1>4 DEF active_runs
      <3> QED BY <1>4, <2>1, <3>1, Before DEF TickInOrder
    <2>4. SeenInOrder(role)'
      BY <1>3, <2>1 DEF SeenInOrder, issue
    <2>5. \A v \in Rev : Working(role, v)' <=> Working(role, v)
      BY <2>1 DEF Working
    <2>6. ASSUME NEW v \in Rev, d.asg[v] = "due", NEW q \in Roles \ {role} PROVE ~Working(q, v)
      <3> SUFFICES ASSUME Working(q, v) PROVE FALSE
        OBVIOUS
      <3>1. v = rev /\ Holds(role)
        BY <1>1, <1>4, <2>6
      <3>2. txn[q].seen \in Nat /\ txn[q].seen <= rev /\ v <= txn[q].seen
        <4>1. txn[q] \in Database /\ SeenInOrder(q)
          BY Before
        <4> QED BY <4>1 DEF Database, SeenInOrder, Working
      <3>3. v = txn[q].seen
        BY <1>2, <3>1, <3>2
      <3>4. Holds(q)
        BY <3>3, Before DEF WorkHoldsIssue
      <3> QED BY <3>1, <3>4 DEF Owned, Ownership, OneHolder
    <2> QED BY <1>5, <2>1, <2>2, <2>3, <2>4, <2>5, <2>6, TickStep
  <1> QED BY <1>6, <1>7 DEF Discover, d

\* What is started was due.
LEMMA StartKeeps ==
  ASSUME TInv, Owned, Undisturbed, NEW role \in Roles, Start(role)
  PROVE  Owned'
  <1> DEFINE c == txn[role]
  <1>1. PICK v \in pending_assignments(c) :
          Commit(role, [c EXCEPT !.asg[v] = "STARTED"], [run[role] EXCEPT ![v] = "running"])
    BY DEF Start
  <1> DEFINE d == [c EXCEPT !.asg[v] = "STARTED"]
             g == [run[role] EXCEPT ![v] = "running"]
  <1>2. /\ v \in Rev /\ c.asg[v] = "due" /\ pc[role] = "start" /\ c \in Database
        /\ UNCHANGED <<labels, issue>>
    BY Before DEF Start, pending_assignments
  <1>3. d \in Database
    BY <1>2, DatabaseType DEF Status
  <1>4. /\ d.seen = c.seen /\ d.asg[v] = "STARTED"
        /\ \A u \in Rev \ {v} : d.asg[u] = c.asg[u]
    BY <1>2 DEF Database
  <1>5. \A u \in Rev \ {v} : g[u] = run[role][u]
    BY RoleTypes DEF TInv
  <1> HIDE DEF d, g
  <1>6. /\ v = c.seen /\ Holds(role)
        /\ \A u \in Rev : c.asg[u] = "due" => u = v
    BY <1>2, Before DEF TickInOrder, WorkHoldsIssue
  <1>7. \A u \in Rev : d.asg[u] # "due"
    BY <1>4, <1>6
  <1>8. d.seen <= rev /\ \A u \in Rev : d.asg[u] # "none" => u <= d.seen
    BY <1>2, <1>4, Before DEF SeenInOrder
  <1>9. \A u \in Rev : d.asg[u] = "STARTED" =>
           /\ u = d.seen => Holds(role)
           /\ \/ c.asg[u] = "STARTED" /\ g[u] = run[role][u]
              \/ pc[role] = "start" /\ c.asg[u] = "due"
    BY <1>2, <1>4, <1>5, <1>6
  <1>10. Commit(role, d, g)
    BY <1>1 DEF d, g
  <1> QED BY <1>2, <1>3, <1>7, <1>8, <1>9, <1>10, CommitKeeps

\* Runs that end or grow old.
LEMMA RunKeeps ==
  ASSUME TInv, Owned, Undisturbed, NEW role \in Roles, NEW v \in Rev, NEW s,
         run' = [run EXCEPT ![role][v] = s], UNCHANGED <<labels, issue, db, tick>>,
         s \in {"running", "overdue"} => run[role][v] \in {"running", "overdue"}
  PROVE  Owned'
  <1>1. /\ UNCHANGED <<labels, issue, db, txn, pc, todo, out>> /\ Only(role)
        /\ \A u \in Rev : run'[role][u] = IF u = v THEN s ELSE run[role][u]
    BY DEF tick, Only, TInv, TypeOK
  <1>2. Leaving(role)' = Leaving(role)
    BY <1>1 DEF Leaving
  <1>3. Holds(role) => Holds(role)'
    BY <1>1, <1>2, SameHolds
  <1>4. \A u \in Rev : run'[role][u] \in {"running", "overdue"} => run[role][u] \in {"running", "overdue"}
    BY <1>1
  <1>5. TransitionInOrder(role)'
    <2>1. out[role].remove # {} => out[role].rev \in Rev
      <3>1. out[role] \in Outgoing
        BY RoleTypes DEF TInv
      <3>2. out[role].remove # {} => out[role] # NoOut
        BY NoOutApart
      <3> QED BY <3>1, <3>2 DEF Outgoing
    <2> QED BY <1>1, <1>3, <1>4, <2>1, Before DEF TransitionInOrder
  <1>6. TickInOrder(role)' /\ SeenInOrder(role)'
    BY <1>1, Before DEF TickInOrder, SeenInOrder, active_runs, issue
  <1>7. \A u \in Rev : Working(role, u)' => Working(role, u)
    BY <1>1, <1>4 DEF Working
  <1>8. \A u \in Rev : u = txn[role].seen /\ (txn[role].asg[u] \in {"due", "STARTED"} \/ Working(role, u))
                         => Holds(role)
    BY Before DEF WorkHoldsIssue
  <1>9. \A u \in Rev : pc'[role] = "start" /\ txn'[role].asg[u] = "due" =>
          \A p \in Roles \ {role} : ~Working(p, u)
    BY <1>1 DEF Owned, Ownership, StartsAlone
  <1> QED BY <1>1, <1>2, <1>5, <1>6, <1>7, <1>8, <1>9, TickStep

\* An edit to a new content.
LEMMA EditKeeps ==
  ASSUME TInv, Owned, Undisturbed, Undisturbed', EditIssue
  PROVE  Owned'
  <1>1. PICK v \in Rev \ {rev} : /\ v <= newest + 1 /\ rev' = v
                                 /\ newest' = (IF v > newest THEN v ELSE newest)
                                 /\ reverted' = (reverted \/ v < newest)
    BY DEF EditIssue
  <1>2. rev = newest /\ rev \in Nat /\ v \in Nat /\ v # rev
    BY <1>1 DEF Owned, Ownership, TInv, TypeOK, Rev
  <1>3. ~(v < newest)
    <2>1. ~reverted'
      BY DEF Undisturbed
    <2> QED BY <1>1, <2>1, Zenon
  <1>4. rev' = newest' /\ rev <= rev' /\ rev' \in Nat
    BY <1>1, <1>2, <1>3
  <1>5. UNCHANGED <<labels, db, txn, pc, todo, out, run>>
    BY DEF EditIssue, tick
  <1>6. \A role \in Roles : Holds(role)' <=> Holds(role)
    BY <1>5 DEF Holds, Leaving
  <1>7. \A role \in Roles, u \in Rev : Working(role, u)' <=> Working(role, u)
    BY <1>5 DEF Working
  <1>8. ASSUME NEW role \in Roles
        PROVE  TickInOrder(role)' /\ SeenInOrder(role)' /\ TransitionInOrder(role)' /\ WorkHoldsIssue(role)'
    <2>1. TickInOrder(role) /\ SeenInOrder(role) /\ TransitionInOrder(role) /\ WorkHoldsIssue(role)
      BY Before
    <2>2. TickInOrder(role)'
      BY <1>5, <2>1 DEF TickInOrder, active_runs
    <2>3. SeenInOrder(role)'
      <3>1. txn[role].seen \in Nat
        <4>1. txn[role] \in Database
          BY Before
        <4> QED BY <4>1 DEF Database
      <3>2. txn[role].seen <= rev'
        BY <1>2, <1>4, <2>1, <3>1 DEF SeenInOrder
      <3> QED BY <1>5, <2>1, <3>2 DEF SeenInOrder
    <2>4. TransitionInOrder(role)'
      BY <1>5, <1>6, <2>1 DEF TransitionInOrder
    <2>5. WorkHoldsIssue(role)'
      BY <1>5, <1>6, <1>7, <2>1 DEF WorkHoldsIssue
    <2> QED BY <2>2, <2>3, <2>4, <2>5
  <1>9. OneHolder' /\ StartsAlone'
    BY <1>5, <1>6, <1>7 DEF Owned, Ownership, OneHolder, StartsAlone
  <1>10. OneRolePerRevision'
    BY <1>7 DEF Owned, OneRolePerRevision
  <1> QED BY <1>4, <1>8, <1>9, <1>10 DEF Owned, Ownership

\* Assignees are none of what the roles' places and labels are about.
LEMMA AssigneesApart ==
  ASSUME Owned, Undisturbed, UNCHANGED <<labels, rev, newest, db, txn, pc, todo, out, run>>
  PROVE  Owned'
  BY DEF Owned, Ownership, OneRolePerRevision, OneHolder, StartsAlone, TickInOrder, SeenInOrder,
         TransitionInOrder, WorkHoldsIssue, Holds, Leaving, Working, active_runs

\* At first only the first role has the issue.
LEMMA OwnedInit == Init => Owned
  <1> SUFFICES ASSUME Init PROVE Owned
    OBVIOUS
  <1>0. /\ \A v \in Rev : NewDatabase.asg[v] = "none"
        /\ NewDatabase.seen = 0 /\ 0 <= rev /\ rev = newest
    BY DEF Init, NewDatabase
  <1>1. \A role \in Roles :
          /\ db[role] = NewDatabase /\ txn[role] = NewDatabase /\ pc[role] = "idle"
          /\ todo[role] = {} /\ out[role] = NoOut
    BY DEF Init
  <1>2. \A role \in Roles : out[role].add = {} /\ out[role].remove = {}
    BY <1>1, NoOutApart
  <1>3. \A role \in Roles : Holds(role) => role = First
    <2>1. \A role \in Roles : Leaving(role) = {}
      BY <1>2, NothingLeaves
    <2> QED BY <2>1, LabelsApart DEF Init, Holds, Mine
  <1>4. \A role \in Roles, v \in Rev : ~Working(role, v)
    BY <1>0, <1>1 DEF Working
  <1>5. ASSUME NEW role \in Roles
        PROVE  TickInOrder(role) /\ SeenInOrder(role) /\ TransitionInOrder(role) /\ WorkHoldsIssue(role)
    <2>1. TickInOrder(role)
      BY <1>0, <1>1 DEF TickInOrder, active_runs
    <2>2. SeenInOrder(role)
      BY <1>0, <1>1 DEF SeenInOrder
    <2>3. TransitionInOrder(role)
      BY <1>2 DEF TransitionInOrder
    <2>4. WorkHoldsIssue(role)
      BY <1>0, <1>1, <1>4 DEF WorkHoldsIssue
    <2> QED BY <2>1, <2>2, <2>3, <2>4
  <1>6. OneHolder
    BY <1>3 DEF OneHolder
  <1>7. StartsAlone /\ OneRolePerRevision
    BY <1>4 DEF StartsAlone, OneRolePerRevision
  <1> QED BY <1>0, <1>5, <1>6, <1>7 DEF Owned, Ownership

\* Every step that disturbs nothing keeps who has the issue.
LEMMA OwnedNext ==
  ASSUME TInv, Undisturbed => Owned, [Next]_vars, Undisturbed'
  PROVE  Owned'
  <1>1. Undisturbed /\ Owned /\ \A role \in Roles : ~Rollback(role) /\ ~ProviderError(role)
    BY Calm
  <1>2. ASSUME NEW role \in Roles, RoleStep(role) PROVE Owned'
    <2>1. CASE ProviderCall(role)
      BY <1>1, <2>1, AddLabelsKeeps, RemoveLabelKeeps, AppliedKeeps DEF ProviderCall
    <2> QED BY <1>1, <1>2, <2>1, BeginKeeps, ReconcileKeeps, DiscoverKeeps, StartKeeps DEF RoleStep
  <1>3. ASSUME NEW role \in Roles, NEW v \in Rev, GatewayFinishes(role, v) PROVE Owned'
    <2>1. PICK s \in Verdict(role) \cup {"failed"} : run' = [run EXCEPT ![role][v] = s]
      BY <1>3 DEF GatewayFinishes
    <2>2. s \notin {"running", "overdue"}
      BY VerdictsApart DEF Overdue
    <2> QED BY <1>1, <1>3, <2>1, <2>2, RunKeeps DEF GatewayFinishes
  <1>4. ASSUME NEW role \in Roles, NEW v \in Rev, RunAges(role, v) PROVE Owned'
    <2> DEFINE s == IF run[role][v] = "running" THEN "overdue" ELSE "ended, overdue"
    <2>1. run' = [run EXCEPT ![role][v] = s] /\ UNCHANGED <<labels, issue, db, tick>>
      BY <1>4 DEF RunAges
    <2>2. s \in {"running", "overdue"} => run[role][v] \in {"running", "overdue"}
      OBVIOUS
    <2> HIDE DEF s
    <2> QED BY <1>1, <2>1, <2>2, RunKeeps
  <1>5. CASE EditIssue
    BY <1>1, <1>5, EditKeeps
  <1>6. CASE UNCHANGED vars
    BY <1>1, <1>6, AssigneesApart DEF vars, tick, issue
  <1>7. CASE AssignIssue
    BY <1>1, <1>7, AssigneesApart DEF AssignIssue, tick
  <1> QED BY <1>1, <1>2, <1>3, <1>4, <1>5, <1>6, <1>7 DEF Next, EnvironmentStep

-----------------------------------------------------------------------------
\* While nothing is disturbed, at most one role has the issue, and whoever works on
\* its current content, or is about to, is that role.
THEOREM OwnershipHolds == Spec => []PInv
  <1>1. Init => PInv
    BY TypeInit, OwnedInit DEF PInv, TInv, Owned
  <1>2. PInv /\ [Next]_vars => PInv'
    <2> SUFFICES ASSUME PInv, [Next]_vars PROVE PInv'
      OBVIOUS
    <2>1. TInv /\ (Undisturbed => Owned)
      BY DEF PInv, TInv, Owned
    <2>2. TInv'
      BY <2>1, TypeNext
    <2>3. Undisturbed' => Owned'
      BY <2>1, OwnedNext
    <2> QED BY <2>2, <2>3 DEF PInv, TInv, Owned
  <1> QED BY <1>1, <1>2, PTL DEF Spec

\* Agents of two roles never work on the same content at the same time, for any set of
\* roles, any outcomes and any number of edits and assignees, unless a provider call
\* fails, a command is rolled back, the issue is edited back, or a role takes it up by its
\* assignees alone.
THEOREM OneRoleAtATime == Spec => []OneRolePerRevision
  <1>1. PInv => OneRolePerRevision
    BY DEF PInv, OneRolePerRevision
  <1> QED BY <1>1, OwnershipHolds, PTL
===============================================================================
