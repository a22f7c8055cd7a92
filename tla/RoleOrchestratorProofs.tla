----------------------- MODULE RoleOrchestratorProofs -----------------------
(***************************************************************************)
(* Proofs about RoleOrchestrator for every value of its constants.         *)
(***************************************************************************)
EXTENDS RoleOrchestrator, TLAPS

-----------------------------------------------------------------------------
(* What the database statements return                                     *)

\* mark_run_finished touches the ACTIVE rows of one assignment and its status.
Finished(d, e, k, rs, as) ==
  /\ \A r \in RunId :
       /\ e.runs[r].key = d.runs[r].key
       /\ e.runs[r].attempt = d.runs[r].attempt
       /\ IF d.runs[r].status = "ACTIVE" /\ d.runs[r].key = k
          THEN e.runs[r].status = rs
          ELSE e.runs[r] = d.runs[r]
  /\ \A j \in Key : j # k => e.asg[j] = d.asg[j]
  /\ e.asg[k].status = as /\ e.asg[k].attempts = d.asg[k].attempts

\* mark_run_finished settles the ACTIVE runs of one assignment and sets its status.
LEMMA FinishedRows ==
  ASSUME NEW d \in Database, NEW k \in Key, NEW rs \in RunStatus,
         NEW as \in AssignmentStatus, NEW retry \in BOOLEAN
  PROVE  /\ mark_run_finished(d, k, rs, as, retry) \in Database
         /\ Finished(d, mark_run_finished(d, k, rs, as, retry), k, rs, as)
         /\ mark_run_finished(d, k, rs, as, retry).trans = d.trans
  <1> DEFINE e == mark_run_finished(d, k, rs, as, retry)
  <1> DEFINE runs == [r \in RunId |-> IF ActiveRun(d, r) /\ d.runs[r].key = k
                                      THEN [d.runs[r] EXCEPT !.status = rs]
                                      ELSE d.runs[r]]
  <1> DEFINE asg == [d.asg EXCEPT ![k] = [status |-> as, attempts |-> d.asg[k].attempts,
                                          retry |-> retry]]
  <1>1. e = [d EXCEPT !.runs = runs, !.asg = asg]
    BY DEF mark_run_finished
  <1>2. d \in [rev: [Item -> 0..MaxRev], asg: [Key -> AssignmentRow],
              runs: [RunId -> RunRow], trans: SUBSET TransitionRow]
    BY DEF Database
  <1>3. runs \in [RunId -> RunRow]
    BY <1>2 DEF RunRow
  <1>4. asg \in [Key -> AssignmentRow]
    BY <1>2 DEF AssignmentRow
  <1>5. /\ e \in Database /\ e.rev = d.rev /\ e.trans = d.trans
        /\ e.runs = runs /\ e.asg = asg
    <2> HIDE DEF runs, asg, e
    <2> QED BY <1>1, <1>2, <1>3, <1>4 DEF Database
  <1>6. \A r \in RunId :
          /\ runs[r].key = d.runs[r].key
          /\ runs[r].attempt = d.runs[r].attempt
          /\ IF d.runs[r].status = "ACTIVE" /\ d.runs[r].key = k
             THEN runs[r].status = rs
             ELSE runs[r] = d.runs[r]
    BY <1>2 DEF RunRow, ActiveRun
  <1>7. /\ \A j \in Key : j # k => asg[j] = d.asg[j]
        /\ asg[k] = [status |-> as, attempts |-> d.asg[k].attempts, retry |-> retry]
    BY <1>2
  <1> HIDE DEF runs, asg, e
  <1>8. e \in Database /\ Finished(d, e, k, rs, as) /\ e.trans = d.trans
    BY <1>5, <1>6, <1>7 DEF Finished
  <1> QED BY <1>8 DEF e

\* mark_assignment_started adds one ACTIVE row and counts the attempt.
Started(d, e, k, r) ==
  /\ e.rev = d.rev /\ e.trans = d.trans
  /\ \A s \in RunId : s # r => e.runs[s] = d.runs[s]
  /\ e.runs[r] = [status |-> "ACTIVE", key |-> k, attempt |-> d.asg[k].attempts + 1]
  /\ \A j \in Key : j # k => e.asg[j] = d.asg[j]
  /\ e.asg[k] = [status |-> "STARTED", attempts |-> d.asg[k].attempts + 1, retry |-> FALSE]

LEMMA StartedRows ==
  ASSUME NEW d \in Database, NEW k \in Key, NEW r \in RunId
  PROVE  /\ mark_assignment_started(d, k, r) \in Database
         /\ Started(d, mark_assignment_started(d, k, r), k, r)
  <1> DEFINE e == mark_assignment_started(d, k, r)
  <1> DEFINE n == d.asg[k].attempts + 1
  <1> DEFINE runs == [d.runs EXCEPT ![r] = [status |-> "ACTIVE", key |-> k, attempt |-> n]]
  <1> DEFINE asg == [d.asg EXCEPT ![k] = [status |-> "STARTED", attempts |-> n,
                                          retry |-> FALSE]]
  <1>1. e = [d EXCEPT !.asg = asg, !.runs = runs]
    BY DEF mark_assignment_started
  <1>2. d \in [rev: [Item -> 0..MaxRev], asg: [Key -> AssignmentRow],
              runs: [RunId -> RunRow], trans: SUBSET TransitionRow]
    BY DEF Database
  <1>3. n \in Nat
    BY <1>2 DEF AssignmentRow
  <1> HIDE DEF n
  <1>4. runs \in [RunId -> RunRow]
    BY <1>2, <1>3 DEF RunRow, RunStatus
  <1>5. asg \in [Key -> AssignmentRow]
    BY <1>2, <1>3 DEF AssignmentRow, AssignmentStatus
  <1>6. /\ e \in Database /\ e.rev = d.rev /\ e.trans = d.trans
        /\ e.runs = runs /\ e.asg = asg
    <2> HIDE DEF runs, asg, e
    <2> QED BY <1>1, <1>2, <1>4, <1>5 DEF Database
  <1>7. /\ \A s \in RunId : s # r => runs[s] = d.runs[s]
        /\ runs[r] = [status |-> "ACTIVE", key |-> k, attempt |-> n]
        /\ \A j \in Key : j # k => asg[j] = d.asg[j]
        /\ asg[k] = [status |-> "STARTED", attempts |-> n, retry |-> FALSE]
    BY <1>2
  <1> HIDE DEF runs, asg, e
  <1>8. e \in Database /\ Started(d, e, k, r)
    BY <1>6, <1>7 DEF Started, n
  <1> QED BY <1>8 DEF e

\* record_transition adds a row to transitions and nothing else.
RowAdded(d, e, k, st, applied) ==
  /\ e.rev = d.rev /\ e.asg = d.asg /\ e.runs = d.runs
  /\ e.trans = d.trans \cup {[key |-> k, status |-> st, applied |-> applied]}

LEMMA RecordedRows ==
  ASSUME NEW d \in Database, NEW k \in Key, NEW st \in Reported, NEW applied \in BOOLEAN
  PROVE  /\ record_transition(d, k, st, applied) \in Database
         /\ RowAdded(d, record_transition(d, k, st, applied), k, st, applied)
  BY DEF record_transition, RowAdded, Database, TransitionRow

\* requeue_assignments makes the chosen rows PENDING and keeps their attempt_count.
Requeued(d, e, ks) ==
  /\ e.rev = d.rev /\ e.trans = d.trans /\ e.runs = d.runs
  /\ \A k \in Key : IF k \in ks
                    THEN /\ e.asg[k].status = "PENDING" /\ ~e.asg[k].retry
                         /\ e.asg[k].attempts = d.asg[k].attempts
                    ELSE e.asg[k] = d.asg[k]

LEMMA RequeuedRows ==
  ASSUME NEW d \in Database, NEW ks \in SUBSET Key
  PROVE  /\ requeue_assignments(d, ks) \in Database
         /\ Requeued(d, requeue_assignments(d, ks), ks)
  <1> DEFINE row(k) == [d.asg[k] EXCEPT !.status = "PENDING", !.retry = FALSE]
             asg == [k \in Key |-> IF k \in ks THEN row(k) ELSE d.asg[k]]
  <1>1. d.asg \in [Key -> AssignmentRow]
    BY DEF Database
  <1>2. ASSUME NEW k \in Key
        PROVE  /\ row(k) \in AssignmentRow
               /\ row(k).status = "PENDING" /\ row(k).retry = FALSE
               /\ row(k).attempts = d.asg[k].attempts
    <2>1. d.asg[k] \in AssignmentRow
      BY <1>1
    <2> QED BY <2>1 DEF AssignmentRow, AssignmentStatus
  <1> HIDE DEF row
  <1>3. asg \in [Key -> AssignmentRow]
    BY <1>1, <1>2
  <1>4. requeue_assignments(d, ks) = [d EXCEPT !.asg = asg]
    BY DEF requeue_assignments, row
  <1>5. \A k \in Key : asg[k] = IF k \in ks THEN row(k) ELSE d.asg[k]
    OBVIOUS
  <1> HIDE DEF asg
  <1>6. LET e == [d EXCEPT !.asg = asg]
        IN e \in Database /\ e.rev = d.rev /\ e.trans = d.trans /\ e.runs = d.runs /\ e.asg = asg
    BY <1>3 DEF Database
  <1>7. \A k \in Key : IF k \in ks
                      THEN /\ asg[k].status = "PENDING" /\ ~asg[k].retry
                           /\ asg[k].attempts = d.asg[k].attempts
                      ELSE asg[k] = d.asg[k]
    BY <1>2, <1>5
  <1> QED BY <1>4, <1>6, <1>7 DEF Requeued

-----------------------------------------------------------------------------
(* What the database statements preserve                                   *)

\* Consistent reads the assignments and the runs only.
LEMMA ConsistentSameRows ==
  ASSUME NEW d, NEW e, Consistent(d), e.asg = d.asg, e.runs = d.runs
  PROVE  Consistent(e)
  <1>1. RunsLinked(e)
    BY DEF Consistent, RunsLinked
  <1>2. ActiveIsLatest(e)
    BY DEF Consistent, ActiveIsLatest, ActiveRun
  <1>3. OneActiveRun(e) /\ StartedHasRun(e)
    BY DEF Consistent, OneActiveRun, StartedHasRun, ActiveRun
  <1> QED BY <1>1, <1>2, <1>3 DEF Consistent

\* Settling an ACTIVE run of a consistent database leaves it consistent.
LEMMA FinishKeepsConsistent ==
  ASSUME NEW d \in Database, Consistent(d), NEW r \in RunId, ActiveRun(d, r),
         NEW rs \in RunStatus \ {"NONE", "ACTIVE"},
         NEW as \in AssignmentStatus \ {"NONE", "STARTED"}, NEW retry \in BOOLEAN
  PROVE  /\ d.runs[r].key \in Key
         /\ Consistent(mark_run_finished(d, d.runs[r].key, rs, as, retry))
  <1> DEFINE k == d.runs[r].key
  <1> DEFINE e == mark_run_finished(d, k, rs, as, retry)
  <1>1. k \in Key
    BY DEF Consistent, RunsLinked, ActiveRun
  <1> HIDE DEF k
  <1>a. rs \in RunStatus /\ as \in AssignmentStatus /\ as \notin {"NONE", "STARTED"}
    OBVIOUS
  <1>b. Finished(d, e, k, rs, as)
    BY <1>1, <1>a, FinishedRows
  <1> HIDE DEF e
  <1>2. /\ \A s \in RunId :
             /\ e.runs[s].key = d.runs[s].key
             /\ e.runs[s].attempt = d.runs[s].attempt
             /\ IF d.runs[s].status = "ACTIVE" /\ d.runs[s].key = k
                THEN e.runs[s].status = rs
                ELSE e.runs[s] = d.runs[s]
        /\ \A j \in Key : j # k => e.asg[j] = d.asg[j]
        /\ e.asg[k].status = as /\ e.asg[k].attempts = d.asg[k].attempts
    BY <1>b DEF Finished
  <1>3. RunsLinked(e)
    <2> SUFFICES ASSUME NEW s \in RunId, e.runs[s].status # "NONE"
                 PROVE  /\ e.runs[s].key \in Key
                        /\ e.asg[e.runs[s].key].status # "NONE"
                        /\ e.runs[s].attempt <= e.asg[e.runs[s].key].attempts
      BY DEF RunsLinked
    <2> DEFINE j == d.runs[s].key
    <2>1. d.runs[s].status # "NONE"
      BY <1>2
    <2>2. j \in Key /\ d.asg[j].status # "NONE" /\ d.runs[s].attempt <= d.asg[j].attempts
      BY <2>1 DEF Consistent, RunsLinked
    <2>3. e.runs[s].key = j /\ e.runs[s].attempt = d.runs[s].attempt
      BY <1>2
    <2> HIDE DEF j
    <2>4. e.asg[j].status # "NONE" /\ e.asg[j].attempts = d.asg[j].attempts
      BY <1>2, <1>a, <2>2
    <2> QED BY <2>2, <2>3, <2>4
  <1>4. \A s \in RunId : ActiveRun(e, s) => ActiveRun(d, s) /\ d.runs[s].key # k
    BY <1>2 DEF ActiveRun
  <1>5. ActiveIsLatest(e)
    BY <1>2, <1>4 DEF Consistent, ActiveIsLatest, RunsLinked, ActiveRun
  <1>6. OneActiveRun(e)
    BY <1>2, <1>4 DEF Consistent, OneActiveRun
  <1>7. StartedHasRun(e)
    <2> SUFFICES ASSUME NEW j \in Key, e.asg[j].status = "STARTED"
                 PROVE  \E s \in RunId : /\ ActiveRun(e, s) /\ e.runs[s].key = j
                                         /\ e.runs[s].attempt = e.asg[j].attempts
      BY DEF StartedHasRun
    <2>1. e.asg[k].status = as /\ as # "STARTED"
      BY <1>2, <1>a
    <2>2. j # k /\ e.asg[j] = d.asg[j]
      BY <1>2, <2>1
    <2>3. PICK s \in RunId : /\ ActiveRun(d, s) /\ d.runs[s].key = j
                             /\ d.runs[s].attempt = d.asg[j].attempts
      BY <2>2 DEF Consistent, StartedHasRun
    <2>4. e.runs[s] = d.runs[s]
      BY <1>2, <2>2, <2>3
    <2> QED BY <2>2, <2>3, <2>4 DEF ActiveRun
  <1> QED BY <1>1, <1>3, <1>5, <1>6, <1>7 DEF Consistent, e, k

\* So does starting a PENDING assignment without an ACTIVE run on a new run id.
LEMMA StartKeepsConsistent ==
  ASSUME NEW d \in Database, Consistent(d), NEW k \in Key, NEW r \in RunId,
         d.asg[k].status = "PENDING", d.runs[r].status = "NONE",
         \A s \in RunId : ActiveRun(d, s) => d.runs[s].key # k
  PROVE  Consistent(mark_assignment_started(d, k, r))
  <1> DEFINE e == mark_assignment_started(d, k, r)
  <1>1. /\ \A s \in RunId : s # r => e.runs[s] = d.runs[s]
        /\ e.runs[r] = [status |-> "ACTIVE", key |-> k, attempt |-> d.asg[k].attempts + 1]
        /\ \A j \in Key : j # k => e.asg[j] = d.asg[j]
        /\ e.asg[k] = [status |-> "STARTED", attempts |-> d.asg[k].attempts + 1,
                       retry |-> FALSE]
    <2>1. Started(d, e, k, r)
      BY StartedRows
    <2> QED BY <2>1 DEF Started
  <1> HIDE DEF e
  <1>2. /\ d.asg[k].attempts \in Nat
        /\ \A s \in RunId : d.runs[s].attempt \in Nat
    BY DEF Database, AssignmentRow, RunRow
  <1>3. RunsLinked(e)
    BY <1>1, <1>2 DEF Consistent, RunsLinked
  <1>4. ActiveIsLatest(e)
    BY <1>1 DEF Consistent, ActiveIsLatest, RunsLinked, ActiveRun
  <1>5. OneActiveRun(e)
    BY <1>1 DEF Consistent, OneActiveRun, ActiveRun
  <1>6. StartedHasRun(e)
    BY <1>1 DEF Consistent, StartedHasRun, ActiveRun
  <1> QED BY <1>3, <1>4, <1>5, <1>6 DEF Consistent, e

\* So does an operator's requeue of existing assignments.
LEMMA RequeueKeepsConsistent ==
  ASSUME NEW d \in Database, Consistent(d), NEW ks \in SUBSET Key,
         \A k \in ks : d.asg[k].status # "NONE"
  PROVE  Consistent(requeue_assignments(d, ks))
  <1> DEFINE e == requeue_assignments(d, ks)
  <1>1. /\ e.runs = d.runs
        /\ \A k \in Key : IF k \in ks THEN /\ e.asg[k].status = "PENDING"
                                           /\ e.asg[k].attempts = d.asg[k].attempts
                          ELSE e.asg[k] = d.asg[k]
    <2>1. Requeued(d, e, ks)
      BY RequeuedRows
    <2> QED BY <2>1 DEF Requeued
  <1> HIDE DEF e
  <1>2. RunsLinked(e) /\ ActiveIsLatest(e)
    BY <1>1 DEF Consistent, RunsLinked, ActiveIsLatest, ActiveRun
  <1>3. OneActiveRun(e)
    BY <1>1 DEF Consistent, OneActiveRun, ActiveRun
  <1>4. StartedHasRun(e)
    BY <1>1 DEF Consistent, StartedHasRun, ActiveRun
  <1> QED BY <1>2, <1>3, <1>4 DEF Consistent, e

\* upsert_work_item and ensure_assignment add PENDING rows and keep the others.
Discovered(d, e) ==
  /\ e.runs = d.runs /\ e.trans = d.trans
  /\ \A k \in Key :
       \/ e.asg[k] = d.asg[k]
       \/ /\ d.asg[k].status = "NONE" /\ e.asg[k].status = "PENDING"
          /\ e.asg[k].attempts = 0 /\ ~e.asg[k].retry

LEMMA DiscoveredRows ==
  ASSUME NEW d \in Database, Consistent(d), gh \in [Item -> Issue], NEW found \in SUBSET Item
  PROVE  LET e == upsert_and_ensure(d, found)
         IN e \in Database /\ Consistent(e) /\ Discovered(d, e)
  <1> DEFINE e == upsert_and_ensure(d, found)
  <1> DEFINE rev == [i \in Item |-> IF i \in found THEN gh[i].rev ELSE d.rev[i]]
  <1> DEFINE asg == [k \in Key |->
                IF k[1] \in found /\ k[2] = gh[k[1]].rev /\ d.asg[k].status = "NONE"
                THEN [status |-> "PENDING", attempts |-> 0, retry |-> FALSE]
                ELSE d.asg[k]]
  <1>1. e = [d EXCEPT !.rev = rev, !.asg = asg]
    BY DEF upsert_and_ensure
  <1>2. d \in [rev: [Item -> 0..MaxRev], asg: [Key -> AssignmentRow],
              runs: [RunId -> RunRow], trans: SUBSET TransitionRow]
    BY DEF Database
  <1>3. rev \in [Item -> 0..MaxRev]
    BY <1>2, ConfigAssumption DEF Issue, Rev
  <1>4. asg \in [Key -> AssignmentRow]
    BY <1>2 DEF AssignmentRow, AssignmentStatus
  <1>5. \A k \in Key :
          \/ asg[k] = d.asg[k]
          \/ /\ d.asg[k].status = "NONE" /\ asg[k].status = "PENDING"
             /\ asg[k].attempts = 0 /\ ~asg[k].retry
    OBVIOUS
  <1>6. e \in Database /\ e.runs = d.runs /\ e.trans = d.trans /\ e.asg = asg
    <2> HIDE DEF rev, asg, e
    <2> QED BY <1>1, <1>2, <1>3, <1>4 DEF Database
  <1> HIDE DEF rev, asg, e
  <1>7. RunsLinked(e) /\ ActiveIsLatest(e)
    BY <1>5, <1>6 DEF Consistent, RunsLinked, ActiveIsLatest, ActiveRun
  <1>8. OneActiveRun(e) /\ StartedHasRun(e)
    BY <1>5, <1>6 DEF Consistent, OneActiveRun, StartedHasRun, ActiveRun
  <1>9. Discovered(d, e)
    BY <1>5, <1>6 DEF Discovered
  <1> QED BY <1>6, <1>7, <1>8, <1>9 DEF Consistent, e

\* The repair UPDATE of init_db finds nothing to repair: the counts are right.
LEMMA InitDbIsIdentity ==
  ASSUME NEW d \in Database, Consistent(d)
  PROVE  init_db(d) = d
  <1> DEFINE numbers(k) == {d.runs[r].attempt : r \in {x \in RunId :
                              d.runs[x].status # "NONE" /\ d.runs[x].key = k}}
  <1> DEFINE asg == [k \in Key |->
       IF \E n \in numbers(k) : n > d.asg[k].attempts
       THEN [d.asg[k] EXCEPT !.attempts =
               CHOOSE n \in numbers(k) : \A m \in numbers(k) : m <= n]
       ELSE d.asg[k]]
  <1>1. d \in [rev: [Item -> 0..MaxRev], asg: [Key -> AssignmentRow],
              runs: [RunId -> RunRow], trans: SUBSET TransitionRow]
    BY DEF Database
  <1>2. ASSUME NEW k \in Key, NEW n \in numbers(k)
        PROVE  ~(n > d.asg[k].attempts)
    <2>1. PICK r \in RunId : d.runs[r].status # "NONE" /\ d.runs[r].key = k
                             /\ n = d.runs[r].attempt
      BY <1>2
    <2>2. n <= d.asg[k].attempts
      BY <2>1 DEF Consistent, RunsLinked
    <2>3. n \in Nat /\ d.asg[k].attempts \in Nat
      BY <1>1, <2>1 DEF RunRow, AssignmentRow
    <2> QED BY <2>2, <2>3
  <1>3. asg = [k \in Key |-> d.asg[k]]
    BY <1>2
  <1>4. asg = d.asg
    BY <1>1, <1>3
  <1>5. init_db(d) = [d EXCEPT !.asg = asg]
    BY DEF init_db
  <1> HIDE DEF asg
  <1> QED BY <1>1, <1>4, <1>5

-----------------------------------------------------------------------------
(* The induction step, one group of actions at a time                      *)

\* A transaction view that, with runs t still to reconcile, satisfies the invariant.
SameRows(f, e) == f.asg = e.asg /\ f.runs = e.runs
GoodView(f, t) ==
  /\ Consistent(f) /\ WithinAttempts(f)
  /\ \A s \in t : ActiveRun(f, s)
  /\ \A k \in Key : db.asg[k].status \in FinalStatus => f.asg[k] = db.asg[k]
  /\ \A s \in RunId : Settled(db, s) => f.runs[s] = db.runs[s]

\* What mark_run_finished leaves of the invariant: the run being reconciled was
\* ACTIVE, so its assignment is not final in the committed database, and the
\* other cursors belong to other assignments.
LEMMA SettledTransaction ==
  ASSUME IInv, NEW r \in RunId, NextRun(r),
         NEW rs \in RunStatus \ {"NONE", "ACTIVE"},
         NEW as \in AssignmentStatus \ {"NONE", "STARTED"}, NEW retry \in BOOLEAN,
         as = "PENDING" => HasAttemptsRemaining(r),
         NEW f, SameRows(f, mark_run_finished(txn, RunKey(r), rs, as, retry))
  PROVE  GoodView(f, todo \ {r})
  <1> DEFINE k == RunKey(r)
  <1> DEFINE e == mark_run_finished(txn, k, rs, as, retry)
  <1>1. /\ txn \in Database /\ db \in Database /\ requeues \in [Key -> Nat]
        /\ todo \in SUBSET RunId /\ ActiveRun(txn, r)
        /\ Consistent(txn) /\ WithinAttempts(txn)
    BY DEF IInv, TypeOK, CursorsValid, NextRun
  <1>2. k \in Key /\ Consistent(e)
    BY <1>1, FinishKeepsConsistent DEF RunKey
  <1>3. /\ k = txn.runs[r].key
        /\ txn.asg[k].status \in {"PENDING", "STARTED"}
        /\ txn.runs[r].attempt = txn.asg[k].attempts
        /\ \A s \in RunId : ActiveRun(txn, s) /\ txn.runs[s].key = k => s = r
    BY <1>1 DEF RunKey, Consistent, ActiveIsLatest, OneActiveRun
  <1> HIDE DEF k
  <1>a. rs \in RunStatus /\ as \in AssignmentStatus
    OBVIOUS
  <1>4. Finished(txn, e, k, rs, as)
    BY <1>1, <1>2, <1>a, FinishedRows
  <1>5. f.asg = e.asg /\ f.runs = e.runs
    BY DEF k, SameRows
  <1> HIDE DEF e
  <1>6. Consistent(f)
    BY <1>2, <1>5, ConsistentSameRows
  <1>7. ASSUME NEW s \in RunId, s # r
        PROVE  f.runs[s] = txn.runs[s]
    BY <1>3, <1>4, <1>5, <1>7 DEF Finished, ActiveRun
  <1>8. ASSUME NEW j \in Key, j # k
        PROVE  f.asg[j] = txn.asg[j]
    BY <1>4, <1>5, <1>8 DEF Finished
  <1>9. WithinAttempts(f)
    <2> SUFFICES ASSUME NEW j \in Key
                 PROVE  /\ f.asg[j].attempts <= MaxAttempts + requeues[j]
                        /\ f.asg[j].status = "PENDING" =>
                             f.asg[j].attempts < MaxAttempts + requeues[j]
      BY DEF WithinAttempts
    <2>1. CASE j # k
      BY <1>1, <1>8, <2>1 DEF WithinAttempts
    <2>2. CASE j = k
      <3>1. f.asg[k].status = as /\ f.asg[k].attempts = txn.asg[k].attempts
        BY <1>4, <1>5 DEF Finished
      <3>2. /\ txn.asg[k].attempts \in Nat /\ requeues[k] \in Nat /\ MaxAttempts \in Nat
            /\ txn.asg[k].attempts <= MaxAttempts + requeues[k]
        BY <1>1, <1>2, ConfigAssumption DEF WithinAttempts, Database, AssignmentRow
      <3>3. as = "PENDING" => txn.asg[k].attempts < MaxAttempts
        BY <1>3 DEF HasAttemptsRemaining
      <3>4. \A n, q, m \in Nat : n < m => n < m + q
        OBVIOUS
      <3>5. as = "PENDING" => txn.asg[k].attempts < MaxAttempts + requeues[k]
        BY <3>2, <3>3, <3>4
      <3> QED BY <2>2, <3>1, <3>2, <3>5
    <2> QED BY <2>1, <2>2
  <1>10. \A s \in todo \ {r} : ActiveRun(f, s)
    BY <1>1, <1>7 DEF IInv, CursorsValid, ActiveRun
  <1>11. ASSUME NEW j \in Key, db.asg[j].status \in FinalStatus
         PROVE  f.asg[j] = db.asg[j]
    <2>1. txn.asg[j] = db.asg[j]
      BY <1>11 DEF IInv, FinalRowsKept
    <2>2. j # k
      BY <1>3, <1>11, <2>1 DEF FinalStatus
    <2> QED BY <1>8, <2>1, <2>2
  <1>12. ASSUME NEW s \in RunId, Settled(db, s)
         PROVE  f.runs[s] = db.runs[s]
    <2>1. txn.runs[s] = db.runs[s]
      BY <1>12 DEF IInv, FinalRowsKept
    <2>2. s # r
      BY <1>1, <1>12, <2>1 DEF Settled, ActiveRun
    <2> QED BY <1>7, <2>1, <2>2
  <1> QED BY <1>6, <1>9, <1>10, <1>11, <1>12 DEF GoodView

\* Every reconciliation step that settles a run preserves the invariant.
LEMMA SettleStep ==
  ASSUME IInv, NEW r \in RunId, NextRun(r),
         NEW rs \in RunStatus \ {"NONE", "ACTIVE"},
         NEW as \in AssignmentStatus \ {"NONE", "STARTED"}, NEW retry \in BOOLEAN,
         as = "PENDING" => HasAttemptsRemaining(r),
         txn' \in Database,
         SameRows(txn', mark_run_finished(txn, RunKey(r), rs, as, retry)),
         todo' = todo \ {r}, cooling' \in SUBSET Key,
         pc' \in {"reconcile", "provider"}, out' \in Outgoing,
         pc' = "provider" => out'.run \in RunId /\ out'.key \in Key /\ out'.status \in Reported,
         UNCHANGED notReconciling
  PROVE  IInv'
  <1>1. /\ Consistent(txn') /\ WithinAttempts(txn')
        /\ \A s \in todo \ {r} : ActiveRun(txn', s)
        /\ \A k \in Key : db.asg[k].status \in FinalStatus => txn'.asg[k] = db.asg[k]
        /\ \A s \in RunId : Settled(db, s) => txn'.runs[s] = db.runs[s]
    <2>1. GoodView(txn', todo \ {r})
      BY SettledTransaction
    <2> QED BY <2>1 DEF GoodView
  <1>2. /\ db' = db /\ tick' = tick /\ starts' = starts /\ gw' = gw /\ overdue' = overdue
        /\ gh' = gh /\ posted' = posted /\ requeues' = requeues /\ faults' = faults
    BY DEF notReconciling, history
  <1>3. TypeOK'
    BY <1>2 DEF IInv, TypeOK
  <1>4. Consistent(db)' /\ Consistent(txn)'
    BY <1>1, <1>2 DEF IInv
  <1>5. WithinAttempts(db)' /\ WithinAttempts(txn)'
    BY <1>1, <1>2 DEF IInv, WithinAttempts
  <1>6. starts = {}
    BY DEF IInv, CursorsValid, NextRun
  <1>7. CursorsValid'
    BY <1>1, <1>2, <1>6 DEF CursorsValid
  <1>8. FinalRowsKept'
    BY <1>1, <1>2 DEF FinalRowsKept, Settled
  <1> QED BY <1>3, <1>4, <1>5, <1>7, <1>8 DEF IInv

\* A completed, cancelled or upstream-timed-out run without a transition.
LEMMA SettleSilentlyStep ==
  ASSUME IInv, NEW r \in RunId, NextRun(r),
         NEW rs \in RunStatus \ {"NONE", "ACTIVE"},
         NEW as \in AssignmentStatus \ {"NONE", "STARTED", "PENDING"},
         SettleSilently(r, rs, as)
  PROVE  IInv'
  <1> DEFINE e == mark_run_finished(txn, RunKey(r), rs, as, FALSE)
  <1>1. RunKey(r) \in Key /\ txn \in Database
    BY DEF IInv, TypeOK, CursorsValid, NextRun, RunKey, Consistent, RunsLinked, ActiveRun
  <1>2. rs \in RunStatus /\ as \in AssignmentStatus /\ FALSE \in BOOLEAN
    OBVIOUS
  <1>3. e \in Database
    BY <1>1, <1>2, FinishedRows
  <1>4. /\ txn' = e /\ todo' = todo \ {r}
        /\ UNCHANGED notReconciling /\ pc' = pc /\ out' = out /\ cooling' = cooling
    BY DEF SettleSilently
  <1>5. SameRows(txn', e) /\ txn' \in Database
    BY <1>3, <1>4 DEF SameRows
  <1>6. pc' = "reconcile" /\ out' \in Outgoing /\ cooling' \in SUBSET Key
    BY <1>4 DEF IInv, TypeOK, NextRun
  <1>7. as \in AssignmentStatus \ {"NONE", "STARTED"} /\ as # "PENDING"
    OBVIOUS
  <1> QED BY <1>2, <1>4, <1>5, <1>6, <1>7, SettleStep

\* A lost or failed run whose assignment goes back to PENDING: an attempt is left.
LEMMA RequeueLocallyStep ==
  ASSUME IInv, NEW r \in RunId, NextRun(r), HasAttemptsRemaining(r),
         NEW rs \in RunStatus \ {"NONE", "ACTIVE"}, NEW tag \in Reported,
         RequeueLocally(r, rs, tag)
  PROVE  IInv'
  <1> DEFINE e == mark_run_finished(txn, RunKey(r), rs, "PENDING", HasRetryDelay)
  <1> DEFINE f == record_transition(e, RunKey(r), tag, FALSE)
  <1>1. RunKey(r) \in Key /\ txn \in Database
    BY DEF IInv, TypeOK, CursorsValid, NextRun, RunKey, Consistent, RunsLinked, ActiveRun
  <1>2. rs \in RunStatus /\ "PENDING" \in AssignmentStatus \ {"NONE", "STARTED"}
        /\ HasRetryDelay \in BOOLEAN
    BY ConfigAssumption DEF AssignmentStatus
  <1>3. e \in Database
    BY <1>1, <1>2, FinishedRows
  <1>4. /\ txn' = f /\ todo' = todo \ {r} /\ UNCHANGED notReconciling
        /\ pc' = pc /\ out' = out
        /\ cooling' = IF HasRetryDelay THEN cooling \cup {RunKey(r)} ELSE cooling
    BY DEF RequeueLocally
  <1> HIDE DEF e
  <1>5. f \in Database /\ f.asg = e.asg /\ f.runs = e.runs
    BY <1>1, <1>3, RecordedRows DEF RowAdded
  <1> HIDE DEF f
  <1>6. SameRows(txn', e) /\ txn' \in Database
    BY <1>4, <1>5 DEF SameRows
  <1>7. pc' = "reconcile" /\ out' \in Outgoing /\ cooling' \in SUBSET Key
    BY <1>1, <1>4 DEF IInv, TypeOK, NextRun
  <1> QED BY <1>2, <1>4, <1>6, <1>7, SettleStep DEF e

\* A settled run whose transition is recorded, or handed to the adapter.
LEMMA SettleAndTransitionStep ==
  ASSUME IInv, NEW r \in RunId, NextRun(r),
         NEW rs \in RunStatus \ {"NONE", "ACTIVE"},
         NEW as \in AssignmentStatus \ {"NONE", "STARTED", "PENDING"},
         NEW st \in Reported, NEW add \in SUBSET Label, NEW remove \in SUBSET Label,
         SettleAndTransition(r, rs, as, st, add, remove)
  PROVE  IInv'
  <1> DEFINE e == mark_run_finished(txn, RunKey(r), rs, as, FALSE)
  <1> DEFINE f == record_transition(e, RunKey(r), st, FALSE)
  <1> DEFINE o == [run |-> r, key |-> RunKey(r), status |-> st,
                   add |-> IF CommentOnly THEN {} ELSE add,
                   remove |-> IF CommentOnly THEN {} ELSE remove]
  <1>1. RunKey(r) \in Key /\ txn \in Database
    BY DEF IInv, TypeOK, CursorsValid, NextRun, RunKey, Consistent, RunsLinked, ActiveRun
  <1>2. /\ rs \in RunStatus /\ as \in AssignmentStatus /\ FALSE \in BOOLEAN
        /\ as \in AssignmentStatus \ {"NONE", "STARTED"} /\ as # "PENDING"
    OBVIOUS
  <1>3. e \in Database
    BY <1>1, <1>2, FinishedRows
  <1>4. /\ todo' = todo \ {r} /\ UNCHANGED notReconciling /\ cooling' = cooling
        /\ \/ txn' = f /\ pc' = pc /\ out' = out
           \/ txn' = e /\ pc' = "provider" /\ out' = o
    BY DEF SettleAndTransition
  <1>5. o \in Outgoing /\ o.run \in RunId /\ o.key \in Key /\ o.status \in Reported
    BY <1>1 DEF Outgoing
  <1> HIDE DEF e, o
  <1>6. f \in Database /\ f.asg = e.asg /\ f.runs = e.runs
    <2>1. f \in Database /\ RowAdded(e, f, RunKey(r), st, FALSE)
      BY <1>1, <1>2, <1>3, RecordedRows
    <2> QED BY <2>1 DEF RowAdded
  <1> HIDE DEF f
  <1>7. SameRows(txn', e) /\ txn' \in Database
    BY <1>3, <1>4, <1>6 DEF SameRows
  <1>8. /\ pc' \in {"reconcile", "provider"} /\ out' \in Outgoing
        /\ pc' = "provider" => out'.run \in RunId /\ out'.key \in Key /\ out'.status \in Reported
    BY <1>4, <1>5 DEF IInv, TypeOK, NextRun
  <1>9. cooling' \in SUBSET Key
    BY <1>4 DEF IInv, TypeOK
  <1> QED BY <1>2, <1>4, <1>7, <1>8, <1>9, SettleStep DEF e

\* The workflow table only adds and removes known labels.
LEMMA TableLabels ==
  ASSUME NEW v
  PROVE  LabelsToAdd(Role, v) \in SUBSET Label /\ LabelsToRemove(Role, v) \in SUBSET Label
  <1>1. \A t \in TRANSITIONS : t.add \subseteq Label /\ t.remove \subseteq Label
    BY DEF Label
  <1>2. "hermes:blocked" \in Label
    BY DEF Label
  <1>3. Routes(Role, v) \subseteq TRANSITIONS
    BY DEF Routes
  <1>4. ASSUME NEW l \in LabelsToAdd(Role, v)
        PROVE  l \in Label
    <2> DEFINE own == UNION {t.add : t \in Routes(Role, v)}
    <2>1. l \in own \/ l = "hermes:blocked"
      <3>1. LabelsToAdd(Role, v) = own \/ LabelsToAdd(Role, v) = {"hermes:blocked"}
        BY Zenon DEF LabelsToAdd
      <3> HIDE DEF own
      <3> QED BY <1>4, <3>1
    <2>2. l \in own => \E t \in Routes(Role, v) : l \in t.add
      OBVIOUS
    <2> QED BY <1>1, <1>2, <1>3, <2>1, <2>2
  <1>5. ASSUME NEW l \in LabelsToRemove(Role, v)
        PROVE  l \in Label
    <2>1. \E t \in Routes(Role, v) : l \in t.remove
      BY <1>5 DEF LabelsToRemove
    <2> QED BY <1>1, <1>3, <2>1
  <1> QED BY <1>4, <1>5

\* A step that leaves both databases and the requeue counts alone, and only drops
\* cursors, preserves the invariant if it preserves the types.
LEMMA CursorsOnly ==
  ASSUME IInv, db' = db, txn' = txn, requeues' = requeues, TypeOK',
         todo' \subseteq todo, starts' = starts, pc' = pc,
         out'.run = out.run, out'.key = out.key, out'.status = out.status
  PROVE  IInv'
  <1>1. Consistent(db)' /\ Consistent(txn)'
    BY DEF IInv
  <1>2. WithinAttempts(db)' /\ WithinAttempts(txn)'
    BY DEF IInv, WithinAttempts
  <1>3. CursorsValid'
    BY DEF IInv, CursorsValid
  <1>4. FinalRowsKept'
    BY DEF IInv, FinalRowsKept, Settled
  <1> QED BY <1>1, <1>2, <1>3, <1>4 DEF IInv

\* apply_failure_transition adds hermes:blocked only.
LEMMA FailStep ==
  ASSUME IInv, NEW r \in RunId, NextRun(r),
         NEW rs \in RunStatus \ {"NONE", "ACTIVE"},
         NEW as \in AssignmentStatus \ {"NONE", "STARTED", "PENDING"},
         NEW st \in Reported, Fail(r, rs, as, st)
  PROVE  IInv'
  <1>1. {"hermes:blocked"} \in SUBSET Label /\ {} \in SUBSET Label
    BY DEF Label
  <1>2. SettleAndTransition(r, rs, as, st, {"hermes:blocked"}, {})
    BY DEF Fail
  <1> QED BY <1>1, <1>2, SettleAndTransitionStep

\* A valid final response: stale, with a transition, or without one.
LEMMA CompleteRunStep ==
  ASSUME IInv, NEW r \in RunId, NextRun(r), NEW v \in Verdict, CompleteRun(r, v)
  PROVE  IInv'
  <1>1. /\ "STALE_OUTPUT" \in RunStatus \ {"NONE", "ACTIVE"}
        /\ "COMPLETED" \in RunStatus \ {"NONE", "ACTIVE"}
        /\ "FAILED_FINAL" \in AssignmentStatus \ {"NONE", "STARTED", "PENDING"}
        /\ "COMPLETED" \in AssignmentStatus \ {"NONE", "STARTED", "PENDING"}
    BY DEF RunStatus, AssignmentStatus
  <1>2. v \in Reported /\ "STALE_OUTPUT" \in Reported
    BY DEF Reported
  <1>3. CASE Fail(r, "STALE_OUTPUT", "FAILED_FINAL", "STALE_OUTPUT")
    BY <1>1, <1>2, <1>3, FailStep
  <1>4. CASE SettleAndTransition(r, "COMPLETED", "COMPLETED", v,
                                 LabelsToAdd(Role, v), LabelsToRemove(Role, v))
    BY <1>1, <1>2, <1>4, TableLabels, SettleAndTransitionStep
  <1>5. CASE SettleSilently(r, "COMPLETED", "COMPLETED")
    BY <1>1, <1>5, SettleSilentlyStep
  <1> QED BY <1>3, <1>4, <1>5 DEF CompleteRun

\* One iteration of reconcile, whatever the gateway says of the run.
LEMMA ReconcileRunStep ==
  ASSUME IInv, NEW r \in RunId, ReconcileRun(r)
  PROVE  IInv'
  <1>1. /\ {"TIMEOUT", "LOST", "INVALID_OUTPUT", "FAILED", "CANCELLED"} \subseteq
             RunStatus \ {"NONE", "ACTIVE"}
        /\ {"TIMEOUT", "FAILED_FINAL", "BLOCKED_CONFIG", "CANCELLED"} \subseteq
             AssignmentStatus \ {"NONE", "STARTED", "PENDING"}
        /\ {"TIMEOUT", "LOST", "INVALID_OUTPUT", "FAILED_FINAL", "BLOCKED_CONFIG",
            "LOST_REQUEUED", "FAILED_REQUEUED"} \subseteq Reported
    BY DEF RunStatus, AssignmentStatus, Reported
  <1>2. CASE TimeoutRun(r)
    <2>1. NextRun(r) /\ Fail(r, "TIMEOUT", "TIMEOUT", "TIMEOUT")
      BY <1>2 DEF TimeoutRun
    <2> QED BY <1>1, <2>1, FailStep
  <1>3. CASE LostRun(r)
    <2>1. NextRun(r)
      BY <1>3 DEF LostRun, Observed
    <2>2. CASE HasAttemptsRemaining(r) /\ RequeueLocally(r, "LOST", "LOST_REQUEUED")
      BY <1>1, <2>1, <2>2, RequeueLocallyStep
    <2>3. CASE Fail(r, "LOST", "FAILED_FINAL", "LOST")
      BY <1>1, <2>1, <2>3, FailStep
    <2> QED BY <1>3, <2>2, <2>3 DEF LostRun
  <1>4. CASE ParsedRun(r)
    <2>1. PICK v \in Verdict : Observed(r, v) /\ CompleteRun(r, v)
      BY <1>4 DEF ParsedRun
    <2>2. NextRun(r)
      BY <2>1 DEF Observed
    <2> QED BY <2>1, <2>2, CompleteRunStep
  <1>5. CASE UnparsableRun(r)
    <2>1. NextRun(r)
      BY <1>5 DEF UnparsableRun, Observed
    <2>2. CASE \E v \in Verdict \cap Outcomes : CompleteRun(r, v)
      BY <2>1, <2>2, CompleteRunStep
    <2>3. CASE Fail(r, "INVALID_OUTPUT", "FAILED_FINAL", "INVALID_OUTPUT")
      BY <1>1, <2>1, <2>3, FailStep
    <2> QED BY <1>5, <2>2, <2>3 DEF UnparsableRun
  <1>6. CASE FailedRun(r)
    <2>1. NextRun(r)
      BY <1>6 DEF FailedRun, Observed
    <2>2. CASE Fail(r, "FAILED", "BLOCKED_CONFIG", "BLOCKED_CONFIG")
      BY <1>1, <2>1, <2>2, FailStep
    <2>3. CASE HasAttemptsRemaining(r) /\ RequeueLocally(r, "FAILED", "FAILED_REQUEUED")
      BY <1>1, <2>1, <2>3, RequeueLocallyStep
    <2>4. CASE Fail(r, "FAILED", "FAILED_FINAL", "FAILED_FINAL")
      BY <1>1, <2>1, <2>4, FailStep
    <2> QED BY <1>6, <2>2, <2>3, <2>4 DEF FailedRun
  <1>7. CASE CancelledRun(r)
    <2>1. NextRun(r) /\ SettleSilently(r, "CANCELLED", "CANCELLED")
      BY <1>7 DEF CancelledRun, Observed
    <2> QED BY <1>1, <2>1, SettleSilentlyStep
  <1>8. CASE UpstreamTimeoutRun(r)
    <2>1. NextRun(r) /\ Fail(r, "TIMEOUT", "TIMEOUT", "TIMEOUT")
      BY <1>8 DEF UpstreamTimeoutRun, Observed
    <2> QED BY <1>1, <2>1, FailStep
  <1>9. CASE StillRunning(r)
    <2>1. /\ todo' = todo \ {r} /\ txn' = txn /\ pc' = pc /\ out' = out
          /\ cooling' = cooling /\ db' = db /\ tick' = tick /\ starts' = starts
          /\ gw' = gw /\ overdue' = overdue /\ gh' = gh /\ posted' = posted
          /\ requeues' = requeues /\ faults' = faults
      BY <1>9 DEF StillRunning, notReconciling, history
    <2>2. TypeOK'
      BY <2>1 DEF IInv, TypeOK
    <2> QED BY <2>1, <2>2, CursorsOnly
  <1> QED BY <1>2, <1>3, <1>4, <1>5, <1>6, <1>7, <1>8, <1>9 DEF ReconcileRun

\* Any exception: db.connect rolls back and the command is over.
LEMMA RollbackStep ==
  ASSUME IInv, Rollback, requeues' = requeues,
         gw' \in [RunId -> GatewayRun], gh' = gh, posted' = posted,
         overdue' = overdue, cooling' = cooling, faults' \in Nat
  PROVE  IInv'
  <1>1. /\ pc' = "idle" /\ tick' = FALSE /\ todo' = {} /\ starts' = {} /\ out' = NoOut
        /\ txn' = db /\ db' = db
    BY DEF Rollback, CloseCommand
  <1>2. NoOut \in Outgoing
    BY DEF NoOut, Outgoing
  <1>3. TypeOK'
    BY <1>1, <1>2 DEF IInv, TypeOK
  <1>4. Consistent(db)' /\ Consistent(txn)'
    BY <1>1 DEF IInv
  <1>5. WithinAttempts(db)' /\ WithinAttempts(txn)'
    BY <1>1 DEF IInv, WithinAttempts
  <1>6. CursorsValid' /\ FinalRowsKept'
    BY <1>1 DEF CursorsValid, FinalRowsKept
  <1> QED BY <1>3, <1>4, <1>5, <1>6 DEF IInv

\* The commit at the end of db.connect.
LEMMA EndCommandStep ==
  ASSUME IInv, EndCommand
  PROVE  IInv'
  <1>1. /\ pc' = "idle" /\ tick' = FALSE /\ todo' = {} /\ starts' = {} /\ out' = NoOut
        /\ txn' = txn /\ db' = txn /\ gw' = gw /\ overdue' = overdue
        /\ cooling' = cooling /\ gh' = gh
        /\ posted' = posted /\ requeues' = requeues /\ faults' = faults
    BY DEF EndCommand, Commit, CloseCommand, history
  <1>2. NoOut \in Outgoing
    BY DEF NoOut, Outgoing
  <1>3. TypeOK'
    BY <1>1, <1>2 DEF IInv, TypeOK
  <1>4. Consistent(db)' /\ Consistent(txn)'
    BY <1>1 DEF IInv
  <1>5. WithinAttempts(db)' /\ WithinAttempts(txn)'
    BY <1>1 DEF IInv, WithinAttempts
  <1>6. CursorsValid' /\ FinalRowsKept'
    BY <1>1 DEF CursorsValid, FinalRowsKept
  <1> QED BY <1>3, <1>4, <1>5, <1>6 DEF IInv

\* run_once and reconcile_only: the schema repair changes nothing, and the cursor
\* holds ACTIVE rows.
LEMMA BeginStep ==
  ASSUME IInv, NEW isTick \in BOOLEAN, Begin(isTick)
  PROVE  IInv'
  <1>1. init_db(db) = db
    BY InitDbIsIdentity DEF IInv, TypeOK
  <1>2. /\ pc = "idle" /\ pc' = "reconcile" /\ tick' = isTick /\ txn' = db
        /\ todo' = active_runs(db) /\ db' = db /\ starts' = starts /\ out' = out
        /\ gw' = gw /\ overdue' = overdue /\ cooling' = cooling /\ gh' = gh
        /\ posted' = posted /\ requeues' = requeues /\ faults' = faults
    BY <1>1 DEF Begin, history
  <1>3. todo' \in SUBSET RunId /\ \A r \in todo' : ActiveRun(db, r)
    BY <1>2 DEF active_runs
  <1>4. TypeOK'
    BY <1>2, <1>3 DEF IInv, TypeOK
  <1>5. Consistent(db)' /\ Consistent(txn)'
    BY <1>2 DEF IInv
  <1>6. WithinAttempts(db)' /\ WithinAttempts(txn)'
    BY <1>2 DEF IInv, WithinAttempts
  <1>7. CursorsValid' /\ FinalRowsKept'
    BY <1>2, <1>3 DEF IInv, CursorsValid, FinalRowsKept
  <1> QED BY <1>4, <1>5, <1>6, <1>7 DEF IInv

\* The provider calls change labels, comments and one transitions row.
LEMMA ProviderStep ==
  ASSUME IInv, pc = "provider", UNCHANGED notProvider,
         pc' = "reconcile", out' = NoOut, NEW answered \in BOOLEAN,
         txn' = record_transition(txn, out.key, out.status, answered),
         gh' \in [Item -> Issue], posted' \in [RunId -> SUBSET Reported]
  PROVE  IInv'
  <1>1. /\ db' = db /\ tick' = tick /\ todo' = todo /\ starts' = starts /\ gw' = gw
        /\ overdue' = overdue /\ cooling' = cooling /\ requeues' = requeues
        /\ faults' = faults
    BY DEF notProvider
  <1>2. out.key \in Key /\ out.status \in Reported /\ txn \in Database /\ starts = {}
    BY DEF IInv, TypeOK, CursorsValid
  <1>3. txn' \in Database /\ txn'.asg = txn.asg /\ txn'.runs = txn.runs
    BY <1>2, RecordedRows DEF RowAdded
  <1>4. NoOut \in Outgoing
    BY DEF NoOut, Outgoing
  <1>5. TypeOK'
    BY <1>1, <1>3, <1>4 DEF IInv, TypeOK
  <1>6. Consistent(db)' /\ Consistent(txn)'
    BY <1>1, <1>3, ConsistentSameRows DEF IInv
  <1>7. WithinAttempts(db)' /\ WithinAttempts(txn)'
    BY <1>1, <1>3 DEF IInv, WithinAttempts
  <1>8. CursorsValid'
    BY <1>1, <1>2, <1>3 DEF IInv, CursorsValid, ActiveRun
  <1>9. FinalRowsKept'
    BY <1>1, <1>3 DEF IInv, FinalRowsKept, Settled
  <1> QED BY <1>5, <1>6, <1>7, <1>8, <1>9 DEF IInv

\* The marked comment and the transitions row, with or without an answer.
LEMMA PostCommentStep ==
  ASSUME IInv, NEW answered \in BOOLEAN, PostComment(answered)
  PROVE  IInv'
  <1>1. /\ pc = "provider" /\ UNCHANGED notProvider /\ pc' = "reconcile" /\ out' = NoOut
        /\ txn' = record_transition(txn, out.key, out.status, answered)
        /\ gh' = [gh EXCEPT ![OutItem] = WithComment(gh[OutItem], OutMark)]
        /\ posted' = [posted EXCEPT ![out.run] = posted[out.run] \cup {out.status}]
    BY DEF PostComment
  <1>2. /\ out.key \in Key /\ out.status \in Reported /\ out.run \in RunId
        /\ gh \in [Item -> Issue] /\ posted \in [RunId -> SUBSET Reported]
    BY <1>1 DEF IInv, TypeOK, CursorsValid
  <1>3. OutItem \in Item /\ OutMark \in Mark
    BY <1>2 DEF OutItem, OutMark, Key, Mark
  <1>4. ASSUME NEW issue \in Issue, NEW mark \in Mark
        PROVE  WithComment(issue, mark) \in Issue
    <2> DEFINE n == IF issue.n < PageSize THEN issue.n + 1 ELSE issue.n
    <2> DEFINE first == IF issue.n < PageSize THEN issue.first \cup {mark} ELSE issue.first
    <2> DEFINE later == IF issue.n < PageSize THEN issue.later ELSE issue.later \cup {mark}
    <2> DEFINE dup == IF mark \in issue.first \cup issue.later THEN issue.dup \cup {mark}
                      ELSE issue.dup
    <2>1. /\ issue.n \in 0..PageSize /\ PageSize \in Nat /\ issue.first \in SUBSET Mark
          /\ issue.later \in SUBSET Mark /\ issue.dup \in SUBSET Mark
      BY ConfigAssumption DEF Issue
    <2>2. n \in 0..PageSize
      BY <2>1
    <2>3. first \in SUBSET Mark /\ later \in SUBSET Mark /\ dup \in SUBSET Mark
      BY <2>1
    <2>4. WithComment(issue, mark) =
            IF comment_exists(issue, mark) THEN issue
            ELSE [issue EXCEPT !.n = n, !.first = first, !.later = later, !.dup = dup]
      BY DEF WithComment
    <2> HIDE DEF n, first, later, dup
    <2>5. [issue EXCEPT !.n = n, !.first = first, !.later = later, !.dup = dup] \in Issue
      BY <2>2, <2>3 DEF Issue
    <2> QED BY <2>4, <2>5
  <1>5. gh' \in [Item -> Issue]
    BY <1>1, <1>2, <1>3, <1>4
  <1>6. posted' \in [RunId -> SUBSET Reported]
    BY <1>1, <1>2
  <1> QED BY <1>1, <1>5, <1>6, ProviderStep

\* A provider error that becomes a transitions row.
LEMMA ProviderErrorStep ==
  ASSUME IInv, ProviderError
  PROVE  IInv'
  <1>1. /\ pc = "provider" /\ UNCHANGED notProvider /\ pc' = "reconcile" /\ out' = NoOut
        /\ txn' = record_transition(txn, out.key, out.status, FALSE)
        /\ gh' = gh /\ posted' = posted
    BY DEF ProviderError
  <1>2. gh' \in [Item -> Issue] /\ posted' \in [RunId -> SUBSET Reported]
    BY <1>1 DEF IInv, TypeOK
  <1>3. FALSE \in BOOLEAN
    OBVIOUS
  <1> QED BY <1>1, <1>2, <1>3, ProviderStep

\* A label call changes the issue and nothing else.
LEMMA LabelStep ==
  ASSUME IInv, AddLabels \/ RemoveLabel
  PROVE  IInv'
  <1>1. /\ pc = "provider" /\ UNCHANGED notProvider
        /\ txn' = txn /\ pc' = pc /\ posted' = posted
    BY DEF AddLabels, RemoveLabel
  <1>2. /\ db' = db /\ tick' = tick /\ todo' = todo /\ starts' = starts /\ gw' = gw
        /\ overdue' = overdue /\ cooling' = cooling /\ requeues' = requeues
        /\ faults' = faults
    BY <1>1 DEF notProvider
  <1>3. out \in Outgoing /\ gh \in [Item -> Issue] /\ out.key \in Key
    BY <1>1 DEF IInv, TypeOK, CursorsValid
  <1>4. OutItem \in Item
    BY <1>3 DEF OutItem, Key
  <1>5. PICK add \in SUBSET Label, remove \in SUBSET Label, labels \in SUBSET Label :
          /\ out' = [out EXCEPT !.add = add, !.remove = remove]
          /\ gh' = [gh EXCEPT ![OutItem] = [gh[OutItem] EXCEPT !.labels = labels]]
    <2>1. CASE AddLabels
      <3>1. /\ out' = [out EXCEPT !.add = {}, !.remove = out.remove]
            /\ gh' = [gh EXCEPT ![OutItem] =
                        [gh[OutItem] EXCEPT !.labels = gh[OutItem].labels \cup out.add]]
        BY <1>3, <1>4, <2>1 DEF AddLabels, Outgoing, Issue
      <3>2. gh[OutItem].labels \cup out.add \in SUBSET Label /\ out.remove \in SUBSET Label
        BY <1>3, <1>4 DEF Outgoing, Issue
      <3> QED BY <3>1, <3>2
    <2>2. CASE RemoveLabel
      <3>1. PICK l \in out.remove :
              /\ out' = [out EXCEPT !.add = out.add, !.remove = out.remove \ {l}]
              /\ gh' = [gh EXCEPT ![OutItem] =
                          [gh[OutItem] EXCEPT !.labels = gh[OutItem].labels \ {l}]]
        BY <1>3, <1>4, <2>2 DEF RemoveLabel, Outgoing, Issue
      <3>2. /\ gh[OutItem].labels \ {l} \in SUBSET Label /\ out.add \in SUBSET Label
            /\ out.remove \ {l} \in SUBSET Label
        BY <1>3, <1>4 DEF Outgoing, Issue
      <3> QED BY <3>1, <3>2
    <2> QED BY <2>1, <2>2
  <1>6. gh' \in [Item -> Issue]
    BY <1>3, <1>4, <1>5 DEF Issue
  <1>7. /\ out' \in Outgoing /\ out'.run = out.run /\ out'.key = out.key
        /\ out'.status = out.status
    BY <1>3, <1>5 DEF Outgoing
  <1>8. TypeOK'
    BY <1>1, <1>2, <1>6, <1>7 DEF IInv, TypeOK
  <1> QED BY <1>1, <1>2, <1>7, <1>8, CursorsOnly

\* Discovery adds PENDING rows and draws the starts from them.
LEMMA DiscoverStep ==
  ASSUME IInv, Discover
  PROVE  IInv'
  <1> DEFINE d == upsert_and_ensure(txn, {i \in Item : matches_role(gh[i].labels, gh[i].assignees, Role)})
  <1>1. /\ pc' = "start" /\ txn' = d /\ starts' \in SUBSET pending_assignments(d)
        /\ pc = "reconcile" /\ todo = {}
        /\ db' = db /\ tick' = tick /\ todo' = todo /\ out' = out /\ gw' = gw
        /\ overdue' = overdue /\ cooling' = cooling /\ gh' = gh
        /\ posted' = posted /\ requeues' = requeues /\ faults' = faults
    BY DEF Discover, Reconciled, history
  <1>2. /\ txn \in Database /\ Consistent(txn) /\ WithinAttempts(txn) /\ FinalRowsKept
        /\ gh \in [Item -> Issue] /\ requeues \in [Key -> Nat]
    BY DEF IInv, TypeOK
  <1>3. {i \in Item : matches_role(gh[i].labels, gh[i].assignees, Role)} \in SUBSET Item
    OBVIOUS
  <1>4. /\ d \in Database /\ Consistent(d) /\ d.runs = txn.runs
        /\ \A k \in Key :
             \/ d.asg[k] = txn.asg[k]
             \/ txn.asg[k].status = "NONE" /\ d.asg[k].status = "PENDING"
                /\ d.asg[k].attempts = 0
    <2>1. d \in Database /\ Consistent(d) /\ Discovered(txn, d)
      BY <1>2, <1>3, DiscoveredRows
    <2> QED BY <2>1 DEF Discovered
  <1> HIDE DEF d
  <1>5. starts' \in SUBSET Key /\ \A k \in starts' : d.asg[k].status = "PENDING"
    BY <1>1 DEF pending_assignments
  <1>6. TypeOK'
    BY <1>1, <1>4, <1>5 DEF IInv, TypeOK
  <1>7. Consistent(db)' /\ Consistent(txn)'
    BY <1>1, <1>4 DEF IInv
  <1>8. WithinAttempts(d)
    <2> SUFFICES ASSUME NEW k \in Key
                 PROVE  /\ d.asg[k].attempts <= MaxAttempts + requeues[k]
                        /\ d.asg[k].status = "PENDING" =>
                             d.asg[k].attempts < MaxAttempts + requeues[k]
      BY DEF WithinAttempts
    <2>1. MaxAttempts \in Nat /\ MaxAttempts # 0 /\ requeues[k] \in Nat
      BY <1>2, ConfigAssumption
    <2>2. CASE d.asg[k].attempts = 0
      BY <2>1, <2>2
    <2>3. CASE d.asg[k] = txn.asg[k]
      BY <1>2, <2>3 DEF WithinAttempts
    <2> QED BY <1>4, <2>2, <2>3
  <1>9. WithinAttempts(db)' /\ WithinAttempts(txn)'
    BY <1>1, <1>8 DEF IInv, WithinAttempts
  <1>10. CursorsValid'
    BY <1>1, <1>5 DEF CursorsValid
  <1>11. FinalRowsKept'
    BY <1>1, <1>2, <1>4 DEF FinalRowsKept, FinalStatus, Settled
  <1> QED BY <1>6, <1>7, <1>9, <1>10, <1>11 DEF IInv

\* mark_assignment_started, refused or not.
LEMMA RecordStartStep ==
  ASSUME IInv, NEW k \in Key, NEW r \in RunId, Submitting(k), RecordStart(k, r),
         gw' \in [RunId -> GatewayRun],
         overdue' = overdue, cooling' = cooling, gh' = gh,
         posted' = posted, requeues' = requeues, faults' = faults
  PROVE  IInv'
  <1> DEFINE e == mark_assignment_started(txn, k, r)
  <1>1. CASE Rollback
    BY <1>1, RollbackStep DEF IInv, TypeOK
  <1>2. CASE /\ txn' = e /\ starts' = starts \ {k}
             /\ UNCHANGED <<db, pc, tick, todo, out>>
             /\ txn.runs[r].status = "NONE"
             /\ \A s \in RunId : ActiveRun(txn, s) => txn.runs[s].key # k
    <2>1. /\ pc = "start" /\ txn.asg[k].status = "PENDING" /\ txn \in Database
          /\ Consistent(txn) /\ WithinAttempts(txn) /\ FinalRowsKept
          /\ requeues \in [Key -> Nat]
      BY DEF IInv, TypeOK, CursorsValid, Submitting
    <2>2. Consistent(e)
      BY <1>2, <2>1, StartKeepsConsistent
    <2>3. /\ e \in Database
          /\ \A s \in RunId : s # r => e.runs[s] = txn.runs[s]
          /\ \A j \in Key : j # k => e.asg[j] = txn.asg[j]
          /\ e.asg[k] = [status |-> "STARTED", attempts |-> txn.asg[k].attempts + 1,
                         retry |-> FALSE]
      <3>1. e \in Database /\ Started(txn, e, k, r)
        BY <2>1, StartedRows
      <3> QED BY <3>1 DEF Started
    <2> HIDE DEF e
    <2>4. TypeOK'
      BY <1>2, <2>3 DEF IInv, TypeOK
    <2>5. Consistent(db)' /\ Consistent(txn)'
      BY <1>2, <2>2 DEF IInv
    <2>6. WithinAttempts(e)
      <3> SUFFICES ASSUME NEW j \in Key
                   PROVE  /\ e.asg[j].attempts <= MaxAttempts + requeues[j]
                          /\ e.asg[j].status = "PENDING" =>
                               e.asg[j].attempts < MaxAttempts + requeues[j]
        BY DEF WithinAttempts
      <3>1. CASE j # k
        BY <2>1, <2>3, <3>1 DEF WithinAttempts
      <3>2. CASE j = k
        <4>1. /\ txn.asg[k].attempts < MaxAttempts + requeues[k]
              /\ txn.asg[k].attempts \in Nat /\ MaxAttempts \in Nat /\ requeues[k] \in Nat
          BY <2>1, ConfigAssumption DEF WithinAttempts, Database, AssignmentRow
        <4>2. e.asg[k].attempts = txn.asg[k].attempts + 1 /\ e.asg[k].status = "STARTED"
          BY <2>3
        <4> QED BY <3>2, <4>1, <4>2
      <3> QED BY <3>1, <3>2
    <2>7. WithinAttempts(db)' /\ WithinAttempts(txn)'
      BY <1>2, <2>6 DEF IInv, WithinAttempts
    <2>8. CursorsValid'
      <3>1. \A s \in todo : s # r /\ ActiveRun(e, s)
        BY <1>2, <2>3 DEF IInv, TypeOK, CursorsValid, ActiveRun
      <3>2. \A j \in starts \ {k} : e.asg[j].status = "PENDING"
        BY <2>3 DEF IInv, TypeOK, CursorsValid
      <3> QED BY <1>2, <2>1, <3>1, <3>2 DEF CursorsValid
    <2>9. FinalRowsKept'
      <3>1. ASSUME NEW j \in Key, db.asg[j].status \in FinalStatus
            PROVE  e.asg[j] = db.asg[j]
        <4>1. txn.asg[j] = db.asg[j]
          BY <2>1, <3>1 DEF FinalRowsKept
        <4>2. j # k
          BY <2>1, <3>1, <4>1 DEF FinalStatus
        <4> QED BY <2>3, <4>1, <4>2
      <3>2. ASSUME NEW s \in RunId, Settled(db, s)
            PROVE  e.runs[s] = db.runs[s]
        <4>1. txn.runs[s] = db.runs[s]
          BY <2>1, <3>2 DEF FinalRowsKept
        <4>2. s # r
          BY <1>2, <3>2, <4>1 DEF Settled
        <4> QED BY <2>3, <4>1, <4>2
      <3> QED BY <1>2, <3>1, <3>2 DEF FinalRowsKept, Settled
    <2> QED BY <2>4, <2>5, <2>7, <2>8, <2>9 DEF IInv
  <1> QED BY <1>1, <1>2 DEF RecordStart

\* The gateway's answer keeps its table typed.
LEMMA GatewayCreatesTyped ==
  ASSUME IInv, NEW k \in Key, NEW r \in RunId, GatewayCreates(k, r)
  PROVE  gw' \in [RunId -> GatewayRun]
  BY DEF IInv, TypeOK, GatewayCreates, GatewayRun, GatewayState

\* Every outcome of submit_run.
LEMMA StartingStep ==
  ASSUME IInv, NEW k \in Key,
         StartFresh(k) \/ StartReplayed(k) \/ SubmitError(k) \/ SubmitAnswerLost(k)
  PROVE  IInv'
  <1>0. gw \in [RunId -> GatewayRun] /\ faults \in Nat
    BY DEF IInv, TypeOK
  <1>1. CASE StartFresh(k)
    <2>1. PICK r \in RunId : GatewayCreates(k, r) /\ RecordStart(k, r)
      BY <1>1 DEF StartFresh
    <2>2. /\ Submitting(k) /\ overdue' = overdue /\ cooling' = cooling /\ gh' = gh
          /\ posted' = posted /\ requeues' = requeues /\ faults' = faults
      BY <1>1 DEF StartFresh, history
    <2>3. gw' \in [RunId -> GatewayRun]
      BY <2>1, GatewayCreatesTyped
    <2> QED BY <2>1, <2>2, <2>3, RecordStartStep
  <1>2. CASE StartReplayed(k)
    <2>1. PICK r \in RunId : RecordStart(k, r)
      BY <1>2 DEF StartReplayed
    <2>2. /\ Submitting(k) /\ gw' = gw /\ overdue' = overdue /\ cooling' = cooling
          /\ gh' = gh /\ posted' = posted /\ requeues' = requeues /\ faults' = faults
      BY <1>2 DEF StartReplayed, history
    <2> QED BY <1>0, <2>1, <2>2, RecordStartStep
  <1>3. CASE SubmitError(k)
    <2>1. /\ Rollback /\ gw' = gw /\ overdue' = overdue /\ cooling' = cooling
          /\ gh' = gh /\ posted' = posted /\ requeues' = requeues /\ faults' = faults
      BY <1>3 DEF SubmitError, history
    <2> QED BY <1>0, <2>1, RollbackStep
  <1>4. CASE SubmitAnswerLost(k)
    <2>1. PICK r \in RunId : GatewayCreates(k, r)
      BY <1>4 DEF SubmitAnswerLost
    <2>2. /\ Rollback /\ overdue' = overdue /\ cooling' = cooling /\ gh' = gh
          /\ posted' = posted /\ requeues' = requeues /\ faults' = faults + 1
      BY <1>4 DEF SubmitAnswerLost
    <2>3. gw' \in [RunId -> GatewayRun]
      BY <2>1, GatewayCreatesTyped
    <2> QED BY <1>0, <2>2, <2>3, RollbackStep
  <1> QED BY <1>1, <1>2, <1>3, <1>4

\* Every step of a command preserves the invariant.
LEMMA CommandStepKeeps ==
  ASSUME IInv, CommandStep
  PROVE  IInv'
  <1>0. gw \in [RunId -> GatewayRun] /\ faults \in Nat
    BY DEF IInv, TypeOK
  <1>1. CASE run_once \/ reconcile_only
    <2>1. Begin(TRUE) \/ Begin(FALSE)
      BY <1>1 DEF run_once, reconcile_only
    <2> QED BY <2>1, BeginStep
  <1>2. CASE \E r \in RunId : ReconcileRun(r)
    BY <1>2, ReconcileRunStep
  <1>3. CASE (\E r \in RunId : GetRunError(r)) \/ DiscoveryError
    <2>1. /\ Rollback /\ gw' = gw /\ overdue' = overdue /\ cooling' = cooling
          /\ gh' = gh /\ posted' = posted /\ requeues' = requeues /\ faults' = faults
      BY <1>3 DEF GetRunError, DiscoveryError, history
    <2> QED BY <1>0, <2>1, RollbackStep
  <1>4. CASE AddLabels \/ RemoveLabel
    BY <1>4, LabelStep
  <1>5. CASE ProviderError
    BY <1>5, ProviderErrorStep
  <1>6. CASE \E answered \in BOOLEAN : PostComment(answered)
    BY <1>6, PostCommentStep
  <1>7. CASE Discover
    BY <1>7, DiscoverStep
  <1>8. CASE \E k \in Key : \/ StartFresh(k) \/ StartReplayed(k)
                            \/ SubmitError(k) \/ SubmitAnswerLost(k)
    BY <1>8, StartingStep
  <1>9. CASE EndCommand
    BY <1>9, EndCommandStep
  <1> QED BY <1>1, <1>2, <1>3, <1>4, <1>5, <1>6, <1>7, <1>8, <1>9 DEF CommandStep

\* An operator's requeue buys one attempt for each assignment it names; the run of
\* a STARTED assignment stays ACTIVE.
LEMMA RequeueStep ==
  ASSUME IInv, requeue
  PROVE  IInv'
  <1>1. init_db(db) = db
    BY InitDbIsIdentity DEF IInv, TypeOK
  <1>2. PICK ks \in SUBSET Key :
          /\ \A k \in ks : db.asg[k].status # "NONE"
          /\ db' = requeue_assignments(db, ks) /\ txn' = db'
          /\ requeues' = [k \in Key |-> IF k \in ks THEN requeues[k] + 1 ELSE requeues[k]]
    <2>1. PICK statuses \in {SafeStatuses, ForcedStatuses} :
          \E ks \in SUBSET {k \in Key : db.asg[k].status \in statuses \ {"NONE"}} :
            /\ db' = requeue_assignments(init_db(db), ks) /\ txn' = db'
            /\ requeues' = [k \in Key |-> IF k \in ks THEN requeues[k] + 1 ELSE requeues[k]]
      BY DEF requeue
    <2>2. \A ks \in SUBSET {k \in Key : db.asg[k].status \in statuses \ {"NONE"}} :
            ks \in SUBSET Key /\ \A k \in ks : db.asg[k].status # "NONE"
      OBVIOUS
    <2> QED BY <1>1, <2>1, <2>2
  <1>3. /\ pc = "idle" /\ pc' = pc /\ tick' = tick /\ todo' = todo /\ starts' = starts
        /\ out' = out /\ gw' = gw /\ overdue' = overdue /\ cooling' = cooling /\ gh' = gh
        /\ posted' = posted /\ faults' = faults
    BY DEF requeue
  <1>4. db \in Database /\ Consistent(db) /\ WithinAttempts(db) /\ requeues \in [Key -> Nat]
    BY DEF IInv, TypeOK
  <1>5. /\ db' \in Database /\ db'.runs = db.runs
        /\ \A k \in Key : IF k \in ks
                          THEN /\ db'.asg[k].status = "PENDING"
                               /\ db'.asg[k].attempts = db.asg[k].attempts
                          ELSE db'.asg[k] = db.asg[k]
    <2>1. db' \in Database /\ Requeued(db, db', ks)
      BY <1>2, <1>4, RequeuedRows
    <2> QED BY <2>1 DEF Requeued
  <1>6. Consistent(db)' /\ Consistent(txn)'
    BY <1>2, <1>4, RequeueKeepsConsistent
  <1>7. requeues' \in [Key -> Nat]
    BY <1>2, <1>4
  <1>8. TypeOK'
    BY <1>2, <1>3, <1>5, <1>7 DEF IInv, TypeOK
  <1>9. ASSUME NEW k \in Key
        PROVE  /\ db'.asg[k].attempts <= MaxAttempts + requeues'[k]
               /\ db'.asg[k].status = "PENDING" =>
                    db'.asg[k].attempts < MaxAttempts + requeues'[k]
    <2>1. /\ db.asg[k].attempts <= MaxAttempts + requeues[k]
          /\ db.asg[k].status = "PENDING" => db.asg[k].attempts < MaxAttempts + requeues[k]
          /\ db.asg[k].attempts \in Nat /\ MaxAttempts \in Nat /\ requeues[k] \in Nat
      BY <1>4, ConfigAssumption DEF WithinAttempts, Database, AssignmentRow
    <2>2. CASE k \in ks
      <3>1. requeues'[k] = requeues[k] + 1 /\ db'.asg[k].attempts = db.asg[k].attempts
        BY <1>2, <1>5, <2>2
      <3> QED BY <2>1, <3>1
    <2>3. CASE k \notin ks
      <3>1. requeues'[k] = requeues[k] /\ db'.asg[k] = db.asg[k]
        BY <1>2, <1>5, <2>3
      <3> QED BY <2>1, <3>1
    <2> QED BY <2>2, <2>3
  <1>10. WithinAttempts(db)' /\ WithinAttempts(txn)'
    BY <1>2, <1>9 DEF WithinAttempts
  <1>11. starts = {} /\ todo = {}
    BY <1>3 DEF IInv, CursorsValid
  <1>12. CursorsValid'
    BY <1>3, <1>11 DEF CursorsValid
  <1>13. FinalRowsKept'
    BY <1>2 DEF FinalRowsKept
  <1> QED BY <1>6, <1>8, <1>10, <1>12, <1>13 DEF IInv

\* The gateway, the clock and the people change no row.
LEMMA OutsideStep ==
  ASSUME IInv, UNCHANGED <<db, command, history>>,
         gw' \in [RunId -> GatewayRun], overdue' \in SUBSET RunId,
         cooling' \in SUBSET Key, gh' \in [Item -> Issue]
  PROVE  IInv'
  <1>1. /\ db' = db /\ txn' = txn /\ pc' = pc /\ tick' = tick /\ todo' = todo
        /\ starts' = starts /\ out' = out /\ posted' = posted /\ requeues' = requeues
        /\ faults' = faults
    BY DEF command, history
  <1>2. TypeOK'
    BY <1>1 DEF IInv, TypeOK
  <1> QED BY <1>1, <1>2, CursorsOnly

\* So does every step around the commands.
LEMMA EnvironmentStepKeeps ==
  ASSUME IInv, EnvironmentStep
  PROVE  IInv'
  <1>0. /\ gw \in [RunId -> GatewayRun] /\ faults \in Nat /\ overdue \in SUBSET RunId
        /\ cooling \in SUBSET Key /\ gh \in [Item -> Issue]
    BY DEF IInv, TypeOK
  <1>1. CASE requeue
    BY <1>1, RequeueStep
  <1>2. CASE Kill
    <2>1. /\ Rollback /\ gw' = gw /\ overdue' = overdue /\ cooling' = cooling
          /\ gh' = gh /\ posted' = posted /\ requeues' = requeues /\ faults' = faults + 1
      BY <1>2 DEF Kill
    <2> QED BY <1>0, <2>1, RollbackStep
  <1>3. CASE Restart
    <2>1. /\ Rollback /\ overdue' = overdue /\ cooling' = cooling
          /\ gh' = gh /\ posted' = posted /\ requeues' = requeues /\ faults' = faults + 1
      BY <1>3 DEF Restart
    <2>2. gw' \in [RunId -> GatewayRun]
      BY <1>0, <1>3 DEF Restart, GatewayRun, GatewayState
    <2> QED BY <1>0, <2>1, <2>2, RollbackStep
  <1>4. CASE \E r \in RunId : GatewayFinishes(r)
    <2>1. PICK r \in RunId, s \in Outcomes : gw' = [gw EXCEPT ![r].state = s]
      BY <1>4 DEF GatewayFinishes
    <2>2. gw' \in [RunId -> GatewayRun]
      BY <1>0, <2>1, ConfigAssumption DEF GatewayRun, GatewayState
    <2>3. /\ UNCHANGED <<db, command, history>>
          /\ overdue' = overdue /\ cooling' = cooling /\ gh' = gh
      BY <1>4 DEF GatewayFinishes
    <2> QED BY <1>0, <2>2, <2>3, OutsideStep
  <1>5. CASE \E r \in RunId : RunAges(r)
    <2>1. /\ UNCHANGED <<db, command, history>> /\ overdue' \in SUBSET RunId
          /\ gw' = gw /\ cooling' = cooling /\ gh' = gh
      BY <1>0, <1>5 DEF RunAges
    <2> QED BY <1>0, <2>1, OutsideStep
  <1>6. CASE \E k \in Key : RetryDelayElapses(k)
    <2>1. /\ UNCHANGED <<db, command, history>> /\ cooling' \in SUBSET Key
          /\ gw' = gw /\ overdue' = overdue /\ gh' = gh
      BY <1>0, <1>6 DEF RetryDelayElapses
    <2> QED BY <1>0, <2>1, OutsideStep
  <1>7. CASE \E i \in Item : EditIssue(i) \/ ToggleLabel(i) \/ ToggleAssignee(i) \/ HumanComment(i)
    <2>1. PICK i \in Item : EditIssue(i) \/ ToggleLabel(i) \/ ToggleAssignee(i) \/ HumanComment(i)
      BY <1>7
    <2>2. /\ UNCHANGED <<db, command, history>>
          /\ gw' = gw /\ overdue' = overdue /\ cooling' = cooling
      BY <2>1 DEF EditIssue, ToggleLabel, ToggleAssignee, HumanComment
    <2>3. CASE EditIssue(i)
      <3>1. gh' \in [Item -> Issue]
        BY <1>0, <2>3 DEF EditIssue, Issue
      <3> QED BY <1>0, <2>2, <3>1, OutsideStep
    <2>4. CASE ToggleLabel(i)
      <3>1. HumanLabels \subseteq Label
        BY DEF Label
      <3>2. PICK labels \in SUBSET Label : gh' = [gh EXCEPT ![i].labels = labels]
        <4>1. PICK l \in HumanLabels :
                gh' = [gh EXCEPT ![i].labels = IF l \in gh[i].labels THEN gh[i].labels \ {l}
                                               ELSE gh[i].labels \cup {l}]
          BY <1>0, <2>4 DEF ToggleLabel
        <4>2. gh[i].labels \in SUBSET Label
          BY <1>0 DEF Issue
        <4> QED BY <3>1, <4>1, <4>2
      <3>3. gh' \in [Item -> Issue]
        BY <1>0, <3>2 DEF Issue
      <3> QED BY <1>0, <2>2, <3>3, OutsideStep
    <2>5. CASE HumanComment(i)
      <3>1. gh[i].n + 1 \in 0..PageSize
        BY <1>0, <2>5, ConfigAssumption DEF HumanComment, Issue
      <3>2. gh' \in [Item -> Issue]
        BY <1>0, <2>5, <3>1 DEF HumanComment, Issue
      <3> QED BY <1>0, <2>2, <3>2, OutsideStep
    <2>6. CASE ToggleAssignee(i)
      <3>1. PICK a \in HumanAssignees :
              gh' = [gh EXCEPT ![i].assignees = IF a \in gh[i].assignees THEN gh[i].assignees \ {a}
                                                ELSE gh[i].assignees \cup {a}]
        BY <1>0, <2>6 DEF ToggleAssignee
      <3>2. PICK s \in SUBSET HumanAssignees : gh' = [gh EXCEPT ![i].assignees = s]
        <4>1. gh[i].assignees \in SUBSET HumanAssignees
          BY <1>0 DEF Issue
        <4> QED BY <3>1, <4>1
      <3>3. gh' \in [Item -> Issue]
        BY <1>0, <3>2 DEF Issue
      <3> QED BY <1>0, <2>2, <3>3, OutsideStep
    <2> QED BY <2>1, <2>3, <2>4, <2>5, <2>6
  <1> QED BY <1>1, <1>2, <1>3, <1>4, <1>5, <1>6, <1>7 DEF EnvironmentStep

\* A fresh database and untouched issues satisfy the invariant.
LEMMA InitInvariant == Init => IInv
  <1> SUFFICES ASSUME Init PROVE IInv
    OBVIOUS
  <1>1. NewDatabase \in Database
    BY ConfigAssumption
    DEF NewDatabase, Database, AssignmentRow, AssignmentStatus, RunRow, RunStatus
  <1>2. NewIssue \in Issue
    BY ConfigAssumption DEF NewIssue, Issue, Rev, Label
  <1>3. NoOut \in Outgoing
    BY DEF NoOut, Outgoing
  <1>4. [r \in RunId |-> [key |-> NoKey, state |-> "unused"]] \in [RunId -> GatewayRun]
    BY DEF GatewayRun, GatewayState
  <1>5. TypeOK
    BY <1>1, <1>2, <1>3, <1>4 DEF Init, TypeOK
  <1>6. /\ \A r \in RunId : NewDatabase.runs[r].status = "NONE"
        /\ \A k \in Key : /\ NewDatabase.asg[k].status = "NONE"
                          /\ NewDatabase.asg[k].attempts = 0
    BY DEF NewDatabase
  <1>7. Consistent(NewDatabase)
    BY <1>6 DEF Consistent, RunsLinked, ActiveIsLatest, OneActiveRun, StartedHasRun, ActiveRun
  <1>8. WithinAttempts(NewDatabase)
    BY <1>6, ConfigAssumption DEF WithinAttempts, Init
  <1>9. CursorsValid /\ FinalRowsKept
    BY DEF Init, CursorsValid, FinalRowsKept
  <1> QED BY <1>5, <1>7, <1>8, <1>9 DEF Init, IInv

\* So does a step that changes nothing.
LEMMA StutterKeeps ==
  ASSUME IInv, UNCHANGED vars
  PROVE  IInv'
  <1>1. UNCHANGED <<db, command, history>> /\ gw' = gw /\ overdue' = overdue
        /\ cooling' = cooling /\ gh' = gh
    BY DEF vars
  <1> QED BY <1>1, OutsideStep DEF IInv, TypeOK

\* What a requeue does to the committed rows.
LEMMA RequeueChanges ==
  ASSUME IInv, requeue
  PROVE  /\ db'.runs = db.runs
         /\ \A k \in Key :
              \/ db'.asg[k] = db.asg[k]
              \/ db'.asg[k].status = "PENDING" /\ requeues'[k] = requeues[k] + 1
  <1>1. init_db(db) = db /\ db \in Database
    BY InitDbIsIdentity DEF IInv, TypeOK
  <1>2. PICK ks \in SUBSET Key :
          /\ db' = requeue_assignments(db, ks)
          /\ requeues' = [k \in Key |-> IF k \in ks THEN requeues[k] + 1 ELSE requeues[k]]
    <2>1. PICK statuses \in {SafeStatuses, ForcedStatuses} :
          \E ks \in SUBSET {k \in Key : db.asg[k].status \in statuses \ {"NONE"}} :
            /\ db' = requeue_assignments(init_db(db), ks)
            /\ requeues' = [k \in Key |-> IF k \in ks THEN requeues[k] + 1 ELSE requeues[k]]
      BY DEF requeue
    <2> QED BY <1>1, <2>1
  <1>3. /\ db'.runs = db.runs
        /\ \A k \in Key : IF k \in ks THEN db'.asg[k].status = "PENDING"
                          ELSE db'.asg[k] = db.asg[k]
    <2>1. Requeued(db, db', ks)
      BY <1>1, <1>2, RequeuedRows
    <2> QED BY <2>1 DEF Requeued
  <1> QED BY <1>2, <1>3

\* The committed database changes by a commit or by a requeue only.
LEMMA WhoWrites ==
  ASSUME [Next]_vars
  PROVE  db' = db \/ db' = txn \/ requeue
  <1>1. CASE CommandStep
    <2>1. ASSUME NEW r \in RunId, ReconcileRun(r) PROVE db' = db
      <3>1. ASSUME NEW v, CompleteRun(r, v) PROVE db' = db
        BY <3>1 DEF CompleteRun, Fail, SettleAndTransition, SettleSilently, notReconciling
      <3>2. CASE ParsedRun(r) \/ UnparsableRun(r)
        BY <3>1, <3>2 DEF ParsedRun, UnparsableRun, Fail, SettleAndTransition, notReconciling
      <3>3. CASE TimeoutRun(r) \/ LostRun(r) \/ FailedRun(r) \/ UpstreamTimeoutRun(r)
        BY <3>3 DEF TimeoutRun, LostRun, FailedRun, UpstreamTimeoutRun, Fail,
          SettleAndTransition, RequeueLocally, notReconciling
      <3>4. CASE CancelledRun(r) \/ StillRunning(r)
        BY <3>4 DEF CancelledRun, StillRunning, SettleSilently, notReconciling
      <3> QED BY <2>1, <3>2, <3>3, <3>4 DEF ReconcileRun
    <2>2. CASE run_once \/ reconcile_only \/ Discover
      BY <2>2 DEF run_once, reconcile_only, Begin, Discover
    <2>3. CASE \/ AddLabels \/ RemoveLabel \/ ProviderError
               \/ \E answered \in BOOLEAN : PostComment(answered)
      BY <2>3 DEF AddLabels, RemoveLabel, ProviderError, PostComment, notProvider
    <2>4. CASE DiscoveryError \/ \E r \in RunId : GetRunError(r)
      BY <2>4 DEF GetRunError, DiscoveryError, Rollback
    <2>5. ASSUME NEW k \in Key,
                 StartFresh(k) \/ StartReplayed(k) \/ SubmitError(k) \/ SubmitAnswerLost(k)
          PROVE  db' = db
      BY <2>5 DEF StartFresh, StartReplayed, SubmitError, SubmitAnswerLost, RecordStart, Rollback
    <2>6. CASE EndCommand
      BY <2>6 DEF EndCommand, Commit
    <2> QED BY <1>1, <2>1, <2>2, <2>3, <2>4, <2>5, <2>6 DEF CommandStep
  <1>2. CASE EnvironmentStep
    BY <1>2 DEF EnvironmentStep, Kill, Restart, Rollback, GatewayFinishes, RunAges,
      RetryDelayElapses, EditIssue, ToggleLabel, ToggleAssignee, HumanComment
  <1>3. CASE UNCHANGED vars
    BY <1>3 DEF vars
  <1> QED BY <1>1, <1>2, <1>3 DEF Next

-----------------------------------------------------------------------------
(* The theorems                                                            *)

\* The inductive invariant: the run rows and the assignment rows of both the
\* committed database and the open transaction agree, whatever interleaving of
\* ticks, reconciles, requeues, kills, restarts and provider failures led there.
THEOREM Invariance == Spec => []IInv
  <1>1. Init => IInv
    BY InitInvariant
  <1>2. IInv /\ [Next]_vars => IInv'
    BY CommandStepKeeps, EnvironmentStepKeeps, StutterKeeps DEF Next
  <1> QED BY <1>1, <1>2, PTL DEF Spec

\* Every variable of the orchestrator keeps its type.
THEOREM TypeCorrect == Spec => []TypeOK
  <1>1. IInv => TypeOK
    BY DEF IInv
  <1> QED BY <1>1, Invariance, PTL

\* mark_assignment_started never gives an assignment a second ACTIVE run.
THEOREM OneActiveRunEach == Spec => []AtMostOneActiveRun
  <1>1. IInv => AtMostOneActiveRun
    BY DEF IInv, Consistent, AtMostOneActiveRun
  <1> QED BY <1>1, Invariance, PTL

\* A STARTED assignment always has the ACTIVE run reconcile will settle it by.
THEOREM NoOrphanedStart == Spec => []StartedHasActiveRun
  <1>1. IInv => StartedHasActiveRun
    BY DEF IInv, Consistent, StartedHasActiveRun
  <1> QED BY <1>1, Invariance, PTL

\* The retry logic of reconcile respects max_attempts_per_assignment for every
\* configuration; only an operator's requeue buys another attempt.
THEOREM RetriesBounded == Spec => []AttemptsBounded
  <1>1. IInv => AttemptsBounded
    BY DEF IInv, WithinAttempts, AttemptsBounded
  <1> QED BY <1>1, Invariance, PTL

\* What a committed transaction may do to a settled run: nothing.
THEOREM SettledRunsStay == Spec => SettledRunsFrozen
  <1>1. ASSUME IInv, [Next]_vars, NEW r \in RunId,
               db.runs[r].status \notin {"NONE", "ACTIVE"}
        PROVE  db'.runs[r] = db.runs[r]
    <2>1. CASE db' = db
      BY <2>1
    <2>2. CASE db' = txn
      BY <1>1, <2>2 DEF IInv, FinalRowsKept, Settled
    <2>3. CASE requeue
      BY <1>1, <2>3, RequeueChanges
    <2> QED BY <1>1, <2>1, <2>2, <2>3, WhoWrites
  <1>2. IInv /\ [Next]_vars =>
          [\A r \in RunId : db.runs[r].status \notin {"NONE", "ACTIVE"} =>
             db'.runs[r] = db.runs[r]]_db
    BY <1>1
  <1> QED BY <1>2, Invariance, PTL DEF Spec, SettledRunsFrozen

\* An assignment in a final status is revived by an operator's requeue only.
THEOREM FinalStays == Spec => FinalNeedsOperator
  <1>1. ASSUME IInv, [Next]_vars, NEW k \in Key,
               db.asg[k].status \notin {"NONE", "PENDING", "STARTED"}
        PROVE  \/ db'.asg[k] = db.asg[k]
               \/ db'.asg[k].status = "PENDING" /\ requeues'[k] = requeues[k] + 1
    <2>1. CASE db' = db
      BY <2>1
    <2>2. CASE db' = txn
      <3>1. db.asg[k].status \in FinalStatus
        BY <1>1 DEF IInv, TypeOK, Database, AssignmentRow, FinalStatus
      <3> QED BY <1>1, <2>2, <3>1 DEF IInv, FinalRowsKept
    <2>3. CASE requeue
      BY <1>1, <2>3, RequeueChanges
    <2> QED BY <1>1, <2>1, <2>2, <2>3, WhoWrites
  <1>2. IInv /\ [Next]_vars =>
          [\A k \in Key : db.asg[k].status \notin {"NONE", "PENDING", "STARTED"} =>
             \/ db'.asg[k] = db.asg[k]
             \/ db'.asg[k].status = "PENDING" /\ requeues'[k] = requeues[k] + 1]_db
    BY <1>1
  <1> QED BY <1>2, Invariance, PTL DEF Spec, FinalNeedsOperator

-----------------------------------------------------------------------------
(* The second invariant: transitions, comments and the queue               *)

\* What the provider's issues keep of their comments in every step.
CommentsKept ==
  \A i \in Item :
    /\ gh'[i].first = gh[i].first /\ gh'[i].later = gh[i].later /\ gh'[i].dup = gh[i].dup
    /\ gh'[i].n < PageSize => gh[i].n < PageSize

LEMMA CommentsStay ==
  ASSUME IInv, EInv, CommentsKept,
         db'.trans \subseteq db.trans \cup txn.trans,
         \A t \in txn'.trans : t.applied => t \in db.trans \cup txn.trans,
         db' \in Database, txn' \in Database
  PROVE  VisibleIn(db)' /\ VisibleIn(txn)' /\ PagesFill'
  <1>1. ASSUME NEW t \in TransitionRow, t \in db.trans \cup txn.trans, t.applied
        PROVE  <<t.key, t.status>> \in gh'[t.key[1]].first \cup gh'[t.key[1]].later
    <2>1. t.key[1] \in Item
      BY DEF TransitionRow, Key
    <2>2. <<t.key, t.status>> \in gh[t.key[1]].first \cup gh[t.key[1]].later
      BY <1>1 DEF EInv, VisibleIn
    <2> QED BY <2>1, <2>2 DEF CommentsKept
  <1>2. db'.trans \in SUBSET TransitionRow /\ txn'.trans \in SUBSET TransitionRow
    BY DEF Database
  <1>3. VisibleIn(db)' /\ VisibleIn(txn)'
    BY <1>1, <1>2 DEF VisibleIn
  <1>4. PagesFill'
    BY DEF EInv, PagesFill, CommentsKept
  <1> QED BY <1>3, <1>4

\* Steps that change neither database: only cursors are dropped, delays elapse, and
\* issues change apart from their marked comments.
LEMMA EffectsFrame ==
  ASSUME IInv, EInv, IInv', db' = db, txn' = txn, pc' = pc, starts' = starts,
         todo' \subseteq todo, cooling' \subseteq cooling, CommentsKept,
         out'.run = out.run, out'.key = out.key, out'.status = out.status
  PROVE  EInv'
  <1>1. RecordsDue' /\ FailuresAreRecorded'
    BY DEF EInv, RecordsDue, Sending, FailuresAreRecorded, Recorded
  <1>2. db' \in Database /\ txn' \in Database
    BY DEF IInv, TypeOK
  <1>3. VisibleIn(db)' /\ VisibleIn(txn)' /\ PagesFill'
    BY <1>2, CommentsStay
  <1>4. PostsUnsettled' /\ ActiveNotDelayed(db)' /\ ActiveNotDelayed(txn)' /\ RunsKept'
    BY DEF EInv, PostsUnsettled, Settled, ActiveNotDelayed, ActiveRun, RunsKept
  <1>5. StartsDue' /\ \A k \in Key : RowMoves(k)'
    BY DEF EInv, StartsDue, RowMoves, Delayed
  <1> QED BY <1>1, <1>3, <1>4, <1>5 DEF EInv

\* A transaction that agrees with the committed database, as after a rollback, a commit,
\* a requeue, or before the first statement of a command.
LEMMA EffectsClosed ==
  ASSUME IInv, EInv, IInv', txn' = db', starts' = {}, pc' # "provider",
         \A r \in todo' : ActiveRun(db', r),
         \A r \in RunId : db'.runs[r].status \in RecordedFailure => Recorded(db', r),
         ActiveNotDelayed(db'), gh' = gh, db'.trans \subseteq db.trans \cup txn.trans
  PROVE  EInv'
  <1>1. RecordsDue' /\ FailuresAreRecorded'
    BY DEF RecordsDue, FailuresAreRecorded, RecordedFailure, Recorded
  <1>2. db' \in Database /\ txn' \in Database
    BY DEF IInv, TypeOK
  <1>3. VisibleIn(db)' /\ VisibleIn(txn)' /\ PagesFill'
    BY <1>2, CommentsStay DEF CommentsKept
  <1>4. PostsUnsettled' /\ ActiveNotDelayed(db)' /\ ActiveNotDelayed(txn)' /\ RunsKept'
    BY DEF PostsUnsettled, ActiveNotDelayed, ActiveRun, RunsKept
  <1>5. ASSUME NEW k \in Key PROVE RowMoves(k)'
    <2>1. db'.asg[k].status = "NONE" => txn'.asg[k].status = "NONE"
      OBVIOUS
    <2> QED BY <2>1 DEF RowMoves, Delayed
  <1>6. StartsDue'
    BY DEF StartsDue
  <1> QED BY <1>1, <1>3, <1>4, <1>5, <1>6 DEF EInv

LEMMA RollbackEffects ==
  ASSUME IInv, EInv, IInv', Rollback, gh' = gh
  PROVE  EInv'
  <1>1. /\ pc' = "idle" /\ todo' = {} /\ starts' = {} /\ txn' = db /\ db' = db
    BY DEF Rollback, CloseCommand
  <1>2. \A r \in RunId : db.runs[r].status \in RecordedFailure => Recorded(db, r)
    BY DEF EInv, FailuresAreRecorded, RecordedFailure
  <1>3. ActiveNotDelayed(db)
    BY DEF EInv
  <1> QED BY <1>1, <1>2, <1>3, EffectsClosed

LEMMA EndCommandEffects ==
  ASSUME IInv, EInv, IInv', EndCommand
  PROVE  EInv'
  <1>1. /\ pc' = "idle" /\ todo' = {} /\ starts' = {} /\ txn' = txn /\ db' = txn /\ gh' = gh
        /\ pc # "provider"
    BY DEF EndCommand, Reconciled, Commit, CloseCommand
  <1>2. \A r \in RunId : txn.runs[r].status \in RecordedFailure => Recorded(txn, r)
    BY <1>1 DEF EInv, RecordsDue, Sending
  <1>3. ActiveNotDelayed(txn)
    BY DEF EInv
  <1> QED BY <1>1, <1>2, <1>3, EffectsClosed

LEMMA BeginEffects ==
  ASSUME IInv, EInv, IInv', NEW isTick \in BOOLEAN, Begin(isTick)
  PROVE  EInv'
  <1>1. init_db(db) = db
    BY InitDbIsIdentity DEF IInv, TypeOK
  <1>2. /\ pc = "idle" /\ pc' = "reconcile" /\ txn' = db /\ db' = db /\ gh' = gh
        /\ todo' = active_runs(db) /\ starts' = starts
    BY <1>1 DEF Begin
  <1>3. starts = {} /\ \A r \in todo' : ActiveRun(db, r)
    BY <1>2 DEF IInv, CursorsValid, active_runs
  <1>4. \A r \in RunId : db.runs[r].status \in RecordedFailure => Recorded(db, r)
    BY DEF EInv, FailuresAreRecorded, RecordedFailure
  <1>5. ActiveNotDelayed(db)
    BY DEF EInv
  <1> QED BY <1>2, <1>3, <1>4, <1>5, EffectsClosed

\* An operator's requeue makes rows due at once, with or without an ACTIVE run.
LEMMA RequeueEffects ==
  ASSUME IInv, EInv, IInv', requeue
  PROVE  EInv'
  <1>1. init_db(db) = db /\ db \in Database
    BY InitDbIsIdentity DEF IInv, TypeOK
  <1>2. PICK ks \in SUBSET Key : db' = requeue_assignments(db, ks) /\ txn' = db'
    <2>1. PICK statuses \in {SafeStatuses, ForcedStatuses} :
          \E ks \in SUBSET {k \in Key : db.asg[k].status \in statuses \ {"NONE"}} :
            db' = requeue_assignments(init_db(db), ks) /\ txn' = db'
      BY DEF requeue
    <2> QED BY <1>1, <2>1
  <1>3. /\ pc = "idle" /\ pc' = "idle" /\ todo' = todo /\ starts' = starts /\ gh' = gh
    BY DEF requeue
  <1>4. todo' = {} /\ starts' = {}
    BY <1>3 DEF IInv, CursorsValid
  <1>5. /\ db'.runs = db.runs /\ db'.trans = db.trans
        /\ \A k \in Key : IF k \in ks THEN ~db'.asg[k].retry ELSE db'.asg[k] = db.asg[k]
    <2>1. Requeued(db, db', ks)
      BY <1>1, <1>2, RequeuedRows
    <2> QED BY <2>1 DEF Requeued
  <1>6. \A r \in RunId : db'.runs[r].status \in RecordedFailure => Recorded(db', r)
    BY <1>5 DEF EInv, FailuresAreRecorded, RecordedFailure, Recorded
  <1>7. ActiveNotDelayed(db')
    <2> SUFFICES ASSUME NEW r \in RunId, ActiveRun(db', r)
                 PROVE  ~db'.asg[db'.runs[r].key].retry
      BY DEF ActiveNotDelayed
    <2>1. ActiveRun(db, r) /\ db'.runs[r].key = db.runs[r].key
      BY <1>5 DEF ActiveRun
    <2>2. db.runs[r].key \in Key /\ ~db.asg[db.runs[r].key].retry
      BY <2>1 DEF IInv, Consistent, RunsLinked, ActiveRun, EInv, ActiveNotDelayed
    <2> QED BY <1>5, <2>1, <2>2
  <1> QED BY <1>2, <1>3, <1>4, <1>5, <1>6, <1>7, EffectsClosed


\* Reconciling a run: it was ACTIVE in the committed database, whose row for its
\* assignment therefore waits for no retry; the run's failure is recorded, or the
\* adapter is about to record it.
LEMMA SettleEffects ==
  ASSUME IInv, EInv, IInv', NEW r \in RunId, NextRun(r),
         NEW rs \in RunStatus \ {"NONE", "ACTIVE"},
         NEW as \in AssignmentStatus \ {"NONE", "STARTED"}, NEW retry \in BOOLEAN,
         SameRows(txn', mark_run_finished(txn, RunKey(r), rs, as, retry)),
         txn.trans \subseteq txn'.trans,
         \A t \in txn'.trans : t.applied => t \in txn.trans,
         rs \in RecordedFailure =>
           \/ \E t \in txn'.trans : t.key = RunKey(r) /\ t.status = rs
           \/ pc' = "provider" /\ out'.key = RunKey(r) /\ out'.status = rs,
         pc' = "provider" => out'.run = r,
         todo' = todo \ {r}, cooling' \subseteq cooling \cup {RunKey(r)},
         UNCHANGED notReconciling
  PROVE  EInv'
  <1> DEFINE k == RunKey(r)
  <1> DEFINE e == mark_run_finished(txn, k, rs, as, retry)
  <1>1. /\ txn \in Database /\ db \in Database /\ txn' \in Database /\ r \in todo
        /\ pc = "reconcile" /\ starts = {} /\ ActiveRun(txn, r) /\ ActiveRun(db, r)
    BY DEF IInv, TypeOK, CursorsValid, NextRun, EInv, RunsKept
  <1>2. k = txn.runs[r].key /\ k = db.runs[r].key /\ k \in Key
    BY <1>1 DEF RunKey, EInv, RunsKept, ActiveRun, IInv, Consistent, RunsLinked
  <1>3. /\ db.asg[k].status \in {"PENDING", "STARTED"} /\ ~db.asg[k].retry
        /\ \A s \in RunId : ActiveRun(txn, s) /\ txn.runs[s].key = k => s = r
    BY <1>1, <1>2 DEF IInv, Consistent, ActiveIsLatest, OneActiveRun, EInv, ActiveNotDelayed
  <1>4. /\ db' = db /\ starts' = {} /\ gh' = gh
    BY <1>1 DEF notReconciling
  <1>a. rs \in RunStatus /\ as \in AssignmentStatus
    OBVIOUS
  <1> HIDE DEF k
  <1>5. Finished(txn, e, k, rs, as)
    BY <1>1, <1>2, <1>a, FinishedRows
  <1>6. txn'.asg = e.asg /\ txn'.runs = e.runs
    BY DEF k, SameRows
  <1> HIDE DEF e
  <1>7. /\ \A s \in RunId \ {r} : txn'.runs[s] = txn.runs[s]
        /\ \A j \in Key \ {k} : txn'.asg[j] = txn.asg[j]
        /\ txn'.runs[r].status = rs /\ txn'.runs[r].key = k /\ txn'.asg[k].status = as
    BY <1>1, <1>2, <1>3, <1>5, <1>6 DEF Finished, ActiveRun
  <1>8. RecordsDue'
    <2> SUFFICES ASSUME NEW s \in RunId, txn'.runs[s].status \in RecordedFailure
                 PROVE  \/ Recorded(txn', s)
                        \/ /\ pc' = "provider" /\ out'.key = txn'.runs[s].key
                           /\ out'.status = txn'.runs[s].status
      BY DEF RecordsDue, Recorded, Sending
    <2>1. CASE s = r
      BY <1>7, <2>1 DEF Recorded, k
    <2>2. CASE s # r
      <3>1. txn'.runs[s] = txn.runs[s]
        BY <1>7, <2>2
      <3>2. Recorded(txn, s)
        BY <1>1, <3>1 DEF EInv, RecordsDue, Sending
      <3> QED BY <3>1, <3>2 DEF Recorded
    <2> QED BY <2>1, <2>2
  <1>9. FailuresAreRecorded'
    BY <1>4 DEF EInv, FailuresAreRecorded, Recorded
  <1>10. VisibleIn(db)' /\ VisibleIn(txn)' /\ PagesFill'
    BY <1>1, <1>4, CommentsStay DEF CommentsKept
  <1>11. PostsUnsettled'
    BY <1>1, <1>4 DEF PostsUnsettled, Settled, ActiveRun
  <1>12. ActiveNotDelayed(db)' /\ ActiveNotDelayed(txn)'
    <2>1. ASSUME NEW s \in RunId, ActiveRun(txn', s)
          PROVE  ~txn'.asg[txn'.runs[s].key].retry
      <3>1. s # r
        BY <1>7, <2>1 DEF ActiveRun
      <3>2. txn'.runs[s] = txn.runs[s] /\ ActiveRun(txn, s)
        BY <1>7, <2>1, <3>1 DEF ActiveRun
      <3>3. txn.runs[s].key \in Key \ {k}
        BY <1>3, <3>1, <3>2 DEF IInv, Consistent, RunsLinked, ActiveRun
      <3>4. ~txn.asg[txn.runs[s].key].retry
        BY <3>2 DEF EInv, ActiveNotDelayed
      <3> QED BY <1>7, <3>2, <3>3, <3>4
    <2>2. ActiveNotDelayed(db)'
      BY <1>4 DEF EInv, ActiveNotDelayed, ActiveRun
    <2> QED BY <2>1, <2>2 DEF ActiveNotDelayed
  <1>13. RunsKept'
    <2>1. ASSUME NEW s \in RunId, db.runs[s].status # "NONE"
          PROVE  txn'.runs[s].status # "NONE" /\ txn'.runs[s].key = db.runs[s].key
      <3>1. CASE s = r
        BY <1>2, <1>7, <3>1
      <3>2. CASE s # r
        BY <1>7, <2>1, <3>2 DEF EInv, RunsKept
      <3> QED BY <3>1, <3>2
    <2>2. \A s \in todo \ {r} : ActiveRun(db, s)
      BY DEF EInv, RunsKept
    <2> QED BY <1>4, <2>1, <2>2 DEF RunsKept, ActiveRun
  <1>14. StartsDue'
    BY <1>4 DEF StartsDue
  <1>15. ASSUME NEW j \in Key PROVE RowMoves(j)'
    <2>1. CASE j = k
      <3>1. txn'.asg[k].status # "NONE" /\ db'.asg[k] = db.asg[k]
        BY <1>4, <1>7
      <3> QED BY <1>3, <2>1, <3>1 DEF RowMoves, Delayed
    <2>2. CASE j # k
      <3>1. txn'.asg[j] = txn.asg[j] /\ (j \in cooling' => j \in cooling)
        BY <1>7, <2>2 DEF k
      <3>2. RowMoves(j)
        BY DEF EInv
      <3> QED BY <1>4, <3>1, <3>2 DEF RowMoves, Delayed
    <2> QED BY <2>1, <2>2
  <1> QED BY <1>8, <1>9, <1>10, <1>11, <1>12, <1>13, <1>14, <1>15 DEF EInv

LEMMA SettleSilentlyEffects ==
  ASSUME IInv, EInv, IInv', NEW r \in RunId, NextRun(r),
         NEW rs \in RunStatus \ {"NONE", "ACTIVE"}, rs \notin RecordedFailure,
         NEW as \in AssignmentStatus \ {"NONE", "STARTED", "PENDING"},
         SettleSilently(r, rs, as)
  PROVE  EInv'
  <1> DEFINE e == mark_run_finished(txn, RunKey(r), rs, as, FALSE)
  <1>1. RunKey(r) \in Key /\ txn \in Database /\ pc = "reconcile"
    BY DEF IInv, TypeOK, CursorsValid, NextRun, RunKey, Consistent, RunsLinked, ActiveRun
  <1>2. /\ rs \in RunStatus /\ as \in AssignmentStatus /\ FALSE \in BOOLEAN
        /\ as \in AssignmentStatus \ {"NONE", "STARTED"}
    OBVIOUS
  <1>3. e.trans = txn.trans
    BY <1>1, <1>2, FinishedRows
  <1>4. /\ txn' = e /\ todo' = todo \ {r} /\ UNCHANGED notReconciling
        /\ pc' = pc /\ cooling' = cooling
    BY DEF SettleSilently
  <1>5. SameRows(txn', e) /\ txn'.trans = txn.trans /\ pc' # "provider"
    BY <1>1, <1>3, <1>4 DEF SameRows
  <1> HIDE DEF e
  <1>6. /\ txn.trans \subseteq txn'.trans
        /\ \A t \in txn'.trans : t.applied => t \in txn.trans
        /\ cooling' \subseteq cooling \cup {RunKey(r)}
    BY <1>4, <1>5
  <1> QED BY <1>2, <1>4, <1>5, <1>6, SettleEffects DEF e

\* The retry timestamp is set on a row whose committed version has none.
LEMMA RequeueLocallyEffects ==
  ASSUME IInv, EInv, IInv', NEW r \in RunId, NextRun(r),
         NEW rs \in RunStatus \ {"NONE", "ACTIVE"}, rs \notin RecordedFailure,
         NEW tag \in Reported, RequeueLocally(r, rs, tag)
  PROVE  EInv'
  <1> DEFINE e == mark_run_finished(txn, RunKey(r), rs, "PENDING", HasRetryDelay)
  <1> DEFINE f == record_transition(e, RunKey(r), tag, FALSE)
  <1>1. RunKey(r) \in Key /\ txn \in Database /\ pc = "reconcile"
    BY DEF IInv, TypeOK, CursorsValid, NextRun, RunKey, Consistent, RunsLinked, ActiveRun
  <1>2. /\ rs \in RunStatus /\ "PENDING" \in AssignmentStatus \ {"NONE", "STARTED"}
        /\ HasRetryDelay \in BOOLEAN
    BY ConfigAssumption DEF AssignmentStatus
  <1>3. e \in Database /\ e.trans = txn.trans
    BY <1>1, <1>2, FinishedRows
  <1>4. /\ txn' = f /\ todo' = todo \ {r} /\ UNCHANGED notReconciling /\ pc' = pc
        /\ cooling' = IF HasRetryDelay THEN cooling \cup {RunKey(r)} ELSE cooling
    BY DEF RequeueLocally
  <1> HIDE DEF e
  <1>5. RowAdded(e, f, RunKey(r), tag, FALSE)
    BY <1>1, <1>3, RecordedRows
  <1> HIDE DEF f
  <1>6. /\ SameRows(txn', e) /\ pc' # "provider"
        /\ txn'.trans = txn.trans \cup {[key |-> RunKey(r), status |-> tag, applied |-> FALSE]}
    BY <1>1, <1>3, <1>4, <1>5 DEF SameRows, RowAdded
  <1>7. /\ txn.trans \subseteq txn'.trans
        /\ \A t \in txn'.trans : t.applied => t \in txn.trans
    BY <1>6
  <1>8. cooling' \subseteq cooling \cup {RunKey(r)}
    BY <1>4
  <1> QED BY <1>2, <1>4, <1>6, <1>7, <1>8, SettleEffects DEF e

\* The transition of a failure has the failure's status: the row written now, or the
\* one the adapter is called for.
LEMMA SettleAndTransitionEffects ==
  ASSUME IInv, EInv, IInv', NEW r \in RunId, NextRun(r),
         NEW rs \in RunStatus \ {"NONE", "ACTIVE"},
         NEW as \in AssignmentStatus \ {"NONE", "STARTED", "PENDING"},
         NEW st \in Reported, rs \in RecordedFailure => st = rs,
         NEW add, NEW remove, SettleAndTransition(r, rs, as, st, add, remove)
  PROVE  EInv'
  <1> DEFINE e == mark_run_finished(txn, RunKey(r), rs, as, FALSE)
  <1> DEFINE f == record_transition(e, RunKey(r), st, FALSE)
  <1> DEFINE row == [key |-> RunKey(r), status |-> st, applied |-> FALSE]
  <1>1. RunKey(r) \in Key /\ txn \in Database /\ pc = "reconcile"
    BY DEF IInv, TypeOK, CursorsValid, NextRun, RunKey, Consistent, RunsLinked, ActiveRun
  <1>2. /\ rs \in RunStatus /\ as \in AssignmentStatus /\ FALSE \in BOOLEAN
        /\ as \in AssignmentStatus \ {"NONE", "STARTED"}
    OBVIOUS
  <1>3. e \in Database /\ e.trans = txn.trans
    BY <1>1, <1>2, FinishedRows
  <1>4. /\ todo' = todo \ {r} /\ UNCHANGED notReconciling /\ cooling' = cooling
        /\ \/ txn' = f /\ pc' = pc
           \/ /\ txn' = e /\ pc' = "provider"
              /\ out'.run = r /\ out'.key = RunKey(r) /\ out'.status = st
    <2> DEFINE o == [run |-> r, key |-> RunKey(r), status |-> st,
                     add |-> IF CommentOnly THEN {} ELSE add,
                     remove |-> IF CommentOnly THEN {} ELSE remove]
    <2>1. /\ todo' = todo \ {r} /\ UNCHANGED notReconciling /\ cooling' = cooling
          /\ \/ txn' = f /\ pc' = pc
             \/ txn' = e /\ pc' = "provider" /\ out' = o
      BY DEF SettleAndTransition
    <2>2. o.run = r /\ o.key = RunKey(r) /\ o.status = st
      OBVIOUS
    <2> HIDE DEF e, f, o
    <2> QED BY <2>1, <2>2
  <1> HIDE DEF e
  <1>5. RowAdded(e, f, RunKey(r), st, FALSE)
    BY <1>1, <1>2, <1>3, RecordedRows
  <1> HIDE DEF f
  <1>6. /\ SameRows(txn', e)
        /\ \/ txn'.trans = txn.trans \cup {row} /\ pc' # "provider"
           \/ /\ txn'.trans = txn.trans /\ pc' = "provider"
              /\ out'.run = r /\ out'.key = RunKey(r) /\ out'.status = st
    BY <1>1, <1>3, <1>4, <1>5 DEF SameRows, RowAdded
  <1>7. row.key = RunKey(r) /\ row.status = st /\ ~row.applied
    OBVIOUS
  <1> HIDE DEF row
  <1>8. /\ txn.trans \subseteq txn'.trans
        /\ \A t \in txn'.trans : t.applied => t \in txn.trans
        /\ pc' = "provider" => out'.run = r
        /\ cooling' \subseteq cooling \cup {RunKey(r)}
    BY <1>4, <1>6, <1>7
  <1>9. rs \in RecordedFailure =>
          \/ \E t \in txn'.trans : t.key = RunKey(r) /\ t.status = rs
          \/ pc' = "provider" /\ out'.key = RunKey(r) /\ out'.status = rs
    BY <1>6, <1>7
  <1> QED BY <1>2, <1>4, <1>6, <1>8, <1>9, SettleEffects DEF e

LEMMA FailEffects ==
  ASSUME IInv, EInv, IInv', NEW r \in RunId, NextRun(r),
         NEW rs \in RunStatus \ {"NONE", "ACTIVE"},
         NEW as \in AssignmentStatus \ {"NONE", "STARTED", "PENDING"},
         NEW st \in Reported, rs \in RecordedFailure => st = rs, Fail(r, rs, as, st)
  PROVE  EInv'
  <1>1. SettleAndTransition(r, rs, as, st, {"hermes:blocked"}, {})
    BY DEF Fail
  <1> QED BY <1>1, SettleAndTransitionEffects

LEMMA CompleteRunEffects ==
  ASSUME IInv, EInv, IInv', NEW r \in RunId, NextRun(r), NEW v \in Verdict, CompleteRun(r, v)
  PROVE  EInv'
  <1>1. /\ "STALE_OUTPUT" \in RunStatus \ {"NONE", "ACTIVE"}
        /\ "COMPLETED" \in RunStatus \ {"NONE", "ACTIVE"} /\ "COMPLETED" \notin RecordedFailure
        /\ "FAILED_FINAL" \in AssignmentStatus \ {"NONE", "STARTED", "PENDING"}
        /\ "COMPLETED" \in AssignmentStatus \ {"NONE", "STARTED", "PENDING"}
    BY DEF RunStatus, AssignmentStatus, RecordedFailure
  <1>2. v \in Reported /\ "STALE_OUTPUT" \in Reported
    BY DEF Reported
  <1>3. CASE Fail(r, "STALE_OUTPUT", "FAILED_FINAL", "STALE_OUTPUT")
    BY <1>1, <1>2, <1>3, FailEffects
  <1>4. CASE SettleAndTransition(r, "COMPLETED", "COMPLETED", v,
                                 LabelsToAdd(Role, v), LabelsToRemove(Role, v))
    BY <1>1, <1>2, <1>4, SettleAndTransitionEffects
  <1>5. CASE SettleSilently(r, "COMPLETED", "COMPLETED")
    BY <1>1, <1>5, SettleSilentlyEffects
  <1> QED BY <1>3, <1>4, <1>5 DEF CompleteRun

\* One iteration of reconcile.
LEMMA ReconcileRunEffects ==
  ASSUME IInv, EInv, IInv', NEW r \in RunId, ReconcileRun(r)
  PROVE  EInv'
  <1>1. /\ {"TIMEOUT", "LOST", "INVALID_OUTPUT", "FAILED", "CANCELLED"} \subseteq
             RunStatus \ {"NONE", "ACTIVE"}
        /\ {"TIMEOUT", "FAILED_FINAL", "BLOCKED_CONFIG", "CANCELLED"} \subseteq
             AssignmentStatus \ {"NONE", "STARTED", "PENDING"}
        /\ {"TIMEOUT", "LOST", "INVALID_OUTPUT", "FAILED_FINAL", "BLOCKED_CONFIG",
            "LOST_REQUEUED", "FAILED_REQUEUED"} \subseteq Reported
    BY DEF RunStatus, AssignmentStatus, Reported
  <1>2. {"LOST", "FAILED", "CANCELLED"} \cap RecordedFailure = {}
    BY DEF RecordedFailure
  <1>3. CASE TimeoutRun(r) \/ UpstreamTimeoutRun(r)
    <2>1. NextRun(r) /\ Fail(r, "TIMEOUT", "TIMEOUT", "TIMEOUT")
      BY <1>3 DEF TimeoutRun, UpstreamTimeoutRun, Observed
    <2> QED BY <1>1, <2>1, FailEffects
  <1>4. CASE LostRun(r)
    <2>1. NextRun(r)
      BY <1>4 DEF LostRun, Observed
    <2>2. CASE RequeueLocally(r, "LOST", "LOST_REQUEUED")
      BY <1>1, <1>2, <2>1, <2>2, RequeueLocallyEffects
    <2>3. CASE Fail(r, "LOST", "FAILED_FINAL", "LOST")
      BY <1>1, <2>1, <2>3, FailEffects
    <2> QED BY <1>4, <2>2, <2>3 DEF LostRun
  <1>5. CASE ParsedRun(r)
    <2>1. PICK v \in Verdict : Observed(r, v) /\ CompleteRun(r, v)
      BY <1>5 DEF ParsedRun
    <2>2. NextRun(r)
      BY <2>1 DEF Observed
    <2> QED BY <2>1, <2>2, CompleteRunEffects
  <1>6. CASE UnparsableRun(r)
    <2>1. NextRun(r)
      BY <1>6 DEF UnparsableRun, Observed
    <2>2. CASE \E v \in Verdict \cap Outcomes : CompleteRun(r, v)
      BY <2>1, <2>2, CompleteRunEffects
    <2>3. CASE Fail(r, "INVALID_OUTPUT", "FAILED_FINAL", "INVALID_OUTPUT")
      BY <1>1, <2>1, <2>3, FailEffects
    <2> QED BY <1>6, <2>2, <2>3 DEF UnparsableRun
  <1>7. CASE FailedRun(r)
    <2>1. NextRun(r)
      BY <1>7 DEF FailedRun, Observed
    <2>2. CASE Fail(r, "FAILED", "BLOCKED_CONFIG", "BLOCKED_CONFIG")
      BY <1>1, <1>2, <2>1, <2>2, FailEffects
    <2>3. CASE RequeueLocally(r, "FAILED", "FAILED_REQUEUED")
      BY <1>1, <1>2, <2>1, <2>3, RequeueLocallyEffects
    <2>4. CASE Fail(r, "FAILED", "FAILED_FINAL", "FAILED_FINAL")
      BY <1>1, <1>2, <2>1, <2>4, FailEffects
    <2> QED BY <1>7, <2>2, <2>3, <2>4 DEF FailedRun
  <1>8. CASE CancelledRun(r)
    <2>1. NextRun(r) /\ SettleSilently(r, "CANCELLED", "CANCELLED")
      BY <1>8 DEF CancelledRun, Observed
    <2> QED BY <1>1, <1>2, <2>1, SettleSilentlyEffects
  <1>9. CASE StillRunning(r)
    <2>1. /\ todo' \subseteq todo /\ txn' = txn /\ pc' = pc /\ out' = out
          /\ cooling' \subseteq cooling /\ db' = db /\ starts' = starts /\ gh' = gh
      BY <1>9 DEF StillRunning, notReconciling
    <2> QED BY <2>1, EffectsFrame DEF CommentsKept
  <1> QED BY <1>3, <1>4, <1>5, <1>6, <1>7, <1>8, <1>9 DEF ReconcileRun

\* What the adapter leaves for the tables: the row that RecordsDue waits for.
LEMMA AdapterEffects ==
  ASSUME IInv, EInv, IInv', pc = "provider", UNCHANGED notProvider, pc' = "reconcile",
         NEW answered \in BOOLEAN,
         txn' = record_transition(txn, out.key, out.status, answered),
         VisibleIn(db)', VisibleIn(txn)', PagesFill'
  PROVE  EInv'
  <1>1. /\ out.key \in Key /\ out.status \in Reported /\ txn \in Database /\ starts = {}
    BY DEF IInv, TypeOK, CursorsValid
  <1>2. db' = db /\ todo' = todo /\ starts' = {} /\ cooling' = cooling
    BY <1>1 DEF notProvider
  <1> DEFINE row == [key |-> out.key, status |-> out.status, applied |-> answered]
  <1>3. txn'.asg = txn.asg /\ txn'.runs = txn.runs /\ txn'.trans = txn.trans \cup {row}
    <2>1. RowAdded(txn, txn', out.key, out.status, answered)
      BY <1>1, RecordedRows
    <2> QED BY <2>1 DEF RowAdded
  <1>4. row.key = out.key /\ row.status = out.status
    OBVIOUS
  <1> HIDE DEF row
  <1>5. RecordsDue'
    <2> SUFFICES ASSUME NEW r \in RunId, txn'.runs[r].status \in RecordedFailure
                 PROVE  Recorded(txn', r)
      BY DEF RecordsDue, Recorded
    <2>1. \/ Recorded(txn, r)
          \/ out.key = txn.runs[r].key /\ out.status = txn.runs[r].status
      BY <1>3 DEF EInv, RecordsDue, Sending
    <2> QED BY <1>3, <1>4, <2>1 DEF Recorded
  <1>6. FailuresAreRecorded'
    BY <1>2 DEF EInv, FailuresAreRecorded, Recorded
  <1>7. PostsUnsettled' /\ StartsDue'
    BY <1>2 DEF PostsUnsettled, StartsDue
  <1>8. ActiveNotDelayed(db)' /\ ActiveNotDelayed(txn)'
    BY <1>2, <1>3 DEF EInv, ActiveNotDelayed, ActiveRun
  <1>9. RunsKept'
    BY <1>2, <1>3 DEF EInv, RunsKept, ActiveRun
  <1>10. \A k \in Key : RowMoves(k)'
    BY <1>2, <1>3 DEF EInv, RowMoves, Delayed
  <1> QED BY <1>5, <1>6, <1>7, <1>8, <1>9, <1>10 DEF EInv

\* An error becomes a row that claims nothing.
LEMMA ProviderErrorEffects ==
  ASSUME IInv, EInv, IInv', ProviderError
  PROVE  EInv'
  <1>1. /\ pc = "provider" /\ UNCHANGED notProvider /\ pc' = "reconcile"
        /\ txn' = record_transition(txn, out.key, out.status, FALSE)
        /\ gh' = gh /\ db' = db
    BY DEF ProviderError, notProvider
  <1>2. /\ out.key \in Key /\ out.status \in Reported /\ txn \in Database
        /\ txn' \in Database /\ db' \in Database /\ FALSE \in BOOLEAN
    BY <1>1 DEF IInv, TypeOK, CursorsValid
  <1>3. txn'.trans = txn.trans \cup {[key |-> out.key, status |-> out.status, applied |-> FALSE]}
    <2>1. RowAdded(txn, txn', out.key, out.status, FALSE)
      BY <1>1, <1>2, RecordedRows
    <2> QED BY <2>1 DEF RowAdded
  <1>4. \A t \in txn'.trans : t.applied => t \in txn.trans
    BY <1>3
  <1>5. VisibleIn(db)' /\ VisibleIn(txn)' /\ PagesFill'
    BY <1>1, <1>2, <1>4, CommentsStay DEF CommentsKept
  <1> QED BY <1>1, <1>2, <1>5, AdapterEffects

\* A comment goes to the first page while there is room on it, and is looked for there:
\* what is posted twice is on a later page.
LEMMA CommentPlaced ==
  ASSUME NEW issue \in Issue, NEW mark \in Mark,
         issue.n < PageSize => issue.later = {},
         issue.dup \subseteq issue.later, issue.first \cap issue.later = {}
  PROVE  LET e == WithComment(issue, mark)
         IN /\ e.n < PageSize => e.later = {}
            /\ e.dup \subseteq e.later /\ e.first \cap e.later = {}
            /\ mark \in e.first \cup e.later
            /\ issue.first \subseteq e.first /\ issue.later \subseteq e.later
  <1> DEFINE e == WithComment(issue, mark)
  <1>1. issue.n \in 0..PageSize /\ PageSize \in Nat
    BY ConfigAssumption DEF Issue
  <1>2. CASE mark \in issue.first
    <2>1. e = issue
      BY <1>2 DEF WithComment, comment_exists
    <2> HIDE DEF e
    <2>2. /\ e.n < PageSize => e.later = {}
          /\ e.dup \subseteq e.later /\ e.first \cap e.later = {}
          /\ mark \in e.first \cup e.later
          /\ issue.first \subseteq e.first /\ issue.later \subseteq e.later
      BY <1>2, <2>1
    <2> QED BY <2>2 DEF e
  <1>3. CASE mark \notin issue.first /\ issue.n < PageSize
    <2>1. /\ e.n = issue.n + 1 /\ e.first = issue.first \cup {mark} /\ e.later = issue.later
          /\ e.dup = IF mark \in issue.first \cup issue.later THEN issue.dup \cup {mark}
                     ELSE issue.dup
      BY <1>3 DEF WithComment, comment_exists, Issue
    <2> HIDE DEF e
    <2>2. /\ e.later = {} /\ e.dup \subseteq e.later /\ e.first \cap e.later = {}
          /\ mark \in e.first \cup e.later
          /\ issue.first \subseteq e.first /\ issue.later \subseteq e.later
      BY <1>3, <2>1
    <2> QED BY <2>2 DEF e
  <1>4. CASE mark \notin issue.first /\ ~(issue.n < PageSize)
    <2>1. /\ e.n = issue.n /\ e.first = issue.first /\ e.later = issue.later \cup {mark}
          /\ e.dup = IF mark \in issue.first \cup issue.later THEN issue.dup \cup {mark}
                     ELSE issue.dup
      BY <1>4 DEF WithComment, comment_exists, Issue
    <2> HIDE DEF e
    <2>2. /\ ~(e.n < PageSize) /\ e.dup \subseteq e.later /\ e.first \cap e.later = {}
          /\ mark \in e.first \cup e.later
          /\ issue.first \subseteq e.first /\ issue.later \subseteq e.later
      BY <1>4, <2>1
    <2> QED BY <2>2 DEF e
  <1> QED BY <1>2, <1>3, <1>4

\* The comment is on the issue before the row says so.
LEMMA PostCommentEffects ==
  ASSUME IInv, EInv, IInv', NEW answered \in BOOLEAN, PostComment(answered)
  PROVE  EInv'
  <1>1. /\ pc = "provider" /\ UNCHANGED notProvider /\ pc' = "reconcile" /\ db' = db
        /\ txn' = record_transition(txn, out.key, out.status, answered)
        /\ gh' = [gh EXCEPT ![OutItem] = WithComment(gh[OutItem], OutMark)]
    BY DEF PostComment, notProvider
  <1>2. /\ out.key \in Key /\ out.status \in Reported /\ txn \in Database /\ db \in Database
        /\ gh \in [Item -> Issue]
    BY <1>1 DEF IInv, TypeOK, CursorsValid
  <1>3. OutItem \in Item /\ OutMark \in Mark /\ OutItem = out.key[1]
        /\ OutMark = <<out.key, out.status>>
    BY <1>2 DEF OutItem, OutMark, Key, Mark
  <1> DEFINE e == WithComment(gh[OutItem], OutMark)
  <1>4. /\ gh[OutItem].n < PageSize => gh[OutItem].later = {}
        /\ gh[OutItem].dup \subseteq gh[OutItem].later
        /\ gh[OutItem].first \cap gh[OutItem].later = {}
    BY <1>3 DEF EInv, PagesFill
  <1>5. /\ e.n < PageSize => e.later = {}
        /\ e.dup \subseteq e.later /\ e.first \cap e.later = {}
        /\ OutMark \in e.first \cup e.later
        /\ gh[OutItem].first \subseteq e.first /\ gh[OutItem].later \subseteq e.later
    <2>1. gh[OutItem] \in Issue
      BY <1>2, <1>3
    <2> QED BY <1>3, <1>4, <2>1, CommentPlaced
  <1>6. gh'[OutItem] = e /\ \A i \in Item \ {OutItem} : gh'[i] = gh[i]
    BY <1>1, <1>2, <1>3
  <1> HIDE DEF e
  <1>7. PagesFill'
    <2> SUFFICES ASSUME NEW i \in Item
                 PROVE  /\ gh'[i].n < PageSize => gh'[i].later = {}
                        /\ gh'[i].dup \subseteq gh'[i].later
                        /\ gh'[i].first \cap gh'[i].later = {}
      BY DEF PagesFill
    <2>1. CASE i = OutItem
      BY <1>5, <1>6, <2>1
    <2>2. CASE i # OutItem
      BY <1>6, <2>2 DEF EInv, PagesFill
    <2> QED BY <2>1, <2>2
  <1>8. ASSUME NEW t \in TransitionRow,
               <<t.key, t.status>> \in gh[t.key[1]].first \cup gh[t.key[1]].later
        PROVE  <<t.key, t.status>> \in gh'[t.key[1]].first \cup gh'[t.key[1]].later
    <2>1. t.key[1] \in Item
      BY DEF TransitionRow, Key
    <2>2. CASE t.key[1] = OutItem
      BY <1>5, <1>6, <1>8, <2>2
    <2>3. CASE t.key[1] # OutItem
      BY <1>6, <1>8, <2>1, <2>3
    <2> QED BY <2>2, <2>3
  <1>9. VisibleIn(db)'
    <2>1. \A t \in db.trans : t \in TransitionRow
      BY <1>2 DEF Database
    <2> QED BY <1>1, <1>8, <2>1 DEF EInv, VisibleIn
  <1> DEFINE row == [key |-> out.key, status |-> out.status, applied |-> answered]
  <1>10. txn'.trans = txn.trans \cup {row}
    <2>1. RowAdded(txn, txn', out.key, out.status, answered)
      BY <1>1, <1>2, RecordedRows
    <2> QED BY <2>1 DEF RowAdded
  <1>11. row.key = out.key /\ row.status = out.status
    OBVIOUS
  <1> HIDE DEF row
  <1>12. VisibleIn(txn)'
    <2>1. \A t \in txn.trans : t \in TransitionRow
      BY <1>2 DEF Database
    <2>2. ASSUME NEW t \in txn.trans, t.applied
          PROVE  <<t.key, t.status>> \in gh'[t.key[1]].first \cup gh'[t.key[1]].later
      BY <1>8, <2>1, <2>2 DEF EInv, VisibleIn
    <2>3. <<row.key, row.status>> \in gh'[row.key[1]].first \cup gh'[row.key[1]].later
      BY <1>3, <1>5, <1>6, <1>11
    <2> QED BY <1>10, <2>2, <2>3 DEF VisibleIn
  <1> QED BY <1>1, <1>7, <1>9, <1>12, AdapterEffects

\* Labels carry no comment.
LEMMA LabelEffects ==
  ASSUME IInv, EInv, IInv', AddLabels \/ RemoveLabel
  PROVE  EInv'
  <1>1. /\ pc = "provider" /\ UNCHANGED notProvider /\ txn' = txn /\ pc' = pc
    BY DEF AddLabels, RemoveLabel
  <1>2. db' = db /\ todo' = todo /\ starts' = starts /\ cooling' = cooling
    BY <1>1 DEF notProvider
  <1>3. out \in Outgoing /\ gh \in [Item -> Issue] /\ OutItem \in Item
    BY <1>1 DEF IInv, TypeOK, CursorsValid, OutItem, Key
  <1>4. out'.run = out.run /\ out'.key = out.key /\ out'.status = out.status
    BY <1>3 DEF AddLabels, RemoveLabel, Outgoing
  <1>5. PICK labels : gh' = [gh EXCEPT ![OutItem] = [gh[OutItem] EXCEPT !.labels = labels]]
    BY <1>3 DEF AddLabels, RemoveLabel
  <1>6. CommentsKept
    BY <1>3, <1>5 DEF CommentsKept, Issue
  <1> QED BY <1>1, <1>2, <1>4, <1>6, EffectsFrame

\* A discovered row is due at once, and pending_assignments selects no delayed row.
LEMMA DiscoverEffects ==
  ASSUME IInv, EInv, IInv', Discover
  PROVE  EInv'
  <1> DEFINE d == upsert_and_ensure(txn, {i \in Item : matches_role(gh[i].labels, gh[i].assignees, Role)})
  <1>1. /\ pc' = "start" /\ txn' = d /\ starts' \in SUBSET pending_assignments(d)
        /\ pc = "reconcile" /\ todo' = todo /\ db' = db /\ cooling' = cooling /\ gh' = gh
    BY DEF Discover, Reconciled
  <1>2. /\ txn \in Database /\ Consistent(txn) /\ gh \in [Item -> Issue]
        /\ db' \in Database /\ txn' \in Database
    BY DEF IInv, TypeOK
  <1>3. {i \in Item : matches_role(gh[i].labels, gh[i].assignees, Role)} \in SUBSET Item
    OBVIOUS
  <1>4. /\ d.runs = txn.runs /\ d.trans = txn.trans
        /\ \A k \in Key :
             \/ d.asg[k] = txn.asg[k]
             \/ /\ txn.asg[k].status = "NONE" /\ d.asg[k].status = "PENDING"
                /\ ~d.asg[k].retry
    <2>1. Discovered(txn, d)
      BY <1>2, <1>3, DiscoveredRows
    <2> QED BY <2>1 DEF Discovered
  <1> HIDE DEF d
  <1>5. RecordsDue'
    BY <1>1, <1>4 DEF EInv, RecordsDue, Recorded, Sending
  <1>6. FailuresAreRecorded'
    BY <1>1 DEF EInv, FailuresAreRecorded, Recorded
  <1>7. VisibleIn(db)' /\ VisibleIn(txn)' /\ PagesFill'
    BY <1>1, <1>2, <1>4, CommentsStay DEF CommentsKept
  <1>8. PostsUnsettled'
    BY <1>1 DEF PostsUnsettled
  <1>9. ActiveNotDelayed(db)'
    BY <1>1 DEF EInv, ActiveNotDelayed, ActiveRun
  <1>10. ActiveNotDelayed(txn)'
    <2> SUFFICES ASSUME NEW r \in RunId, ActiveRun(txn, r)
                 PROVE  ~d.asg[txn.runs[r].key].retry
      BY <1>1, <1>4 DEF ActiveNotDelayed, ActiveRun
    <2>1. txn.runs[r].key \in Key /\ ~txn.asg[txn.runs[r].key].retry
      BY <1>2 DEF Consistent, RunsLinked, ActiveRun, EInv, ActiveNotDelayed
    <2> QED BY <1>4, <2>1
  <1>11. RunsKept'
    BY <1>1, <1>4 DEF EInv, RunsKept, ActiveRun
  <1>12. StartsDue'
    BY <1>1 DEF StartsDue, Delayed, pending_assignments
  <1>13. ASSUME NEW k \in Key PROVE RowMoves(k)'
    <2>1. RowMoves(k)
      BY DEF EInv
    <2>2. CASE d.asg[k] = txn.asg[k]
      BY <1>1, <2>1, <2>2 DEF RowMoves, Delayed
    <2>3. CASE txn.asg[k].status = "NONE" /\ d.asg[k].status = "PENDING" /\ ~d.asg[k].retry
      <3>1. ~Delayed(db, k)
        BY <2>1, <2>3 DEF RowMoves, Delayed
      <3> QED BY <1>1, <2>3, <3>1 DEF RowMoves, Delayed
    <2> QED BY <1>4, <2>2, <2>3
  <1> QED BY <1>5, <1>6, <1>7, <1>8, <1>9, <1>10, <1>11, <1>12, <1>13 DEF EInv

\* mark_assignment_started: the started row was due, in the committed database too.
LEMMA RecordStartEffects ==
  ASSUME IInv, EInv, IInv', NEW k \in Key, NEW r \in RunId, Submitting(k), RecordStart(k, r),
         cooling' = cooling, gh' = gh
  PROVE  EInv'
  <1> DEFINE e == mark_assignment_started(txn, k, r)
  <1>1. CASE Rollback
    BY <1>1, RollbackEffects
  <1>2. CASE /\ txn' = e /\ starts' = starts \ {k} /\ UNCHANGED <<db, pc, tick, todo, out>>
             /\ txn.runs[r].status = "NONE"
    <2>1. /\ pc = "start" /\ txn.asg[k].status = "PENDING" /\ ~Delayed(txn, k)
          /\ txn \in Database /\ txn' \in Database /\ db' \in Database
          /\ starts \in SUBSET Key
      BY DEF IInv, TypeOK, CursorsValid, Submitting, EInv, StartsDue
    <2>2. Started(txn, e, k, r)
      BY <2>1, StartedRows
    <2> HIDE DEF e
    <2>3. /\ txn'.trans = txn.trans
          /\ \A s \in RunId \ {r} : txn'.runs[s] = txn.runs[s]
          /\ txn'.runs[r].status = "ACTIVE" /\ txn'.runs[r].key = k
          /\ \A j \in Key \ {k} : txn'.asg[j] = txn.asg[j]
          /\ txn'.asg[k].status = "STARTED" /\ ~txn'.asg[k].retry
      BY <1>2, <2>2 DEF Started
    <2>4. RecordsDue'
      <3> SUFFICES ASSUME NEW s \in RunId, txn'.runs[s].status \in RecordedFailure
                   PROVE  Recorded(txn', s)
        BY DEF RecordsDue, Recorded
      <3>1. txn'.runs[s] = txn.runs[s]
        BY <2>3 DEF RecordedFailure
      <3>2. Recorded(txn, s)
        BY <2>1, <3>1 DEF EInv, RecordsDue, Sending
      <3> QED BY <2>3, <3>1, <3>2 DEF Recorded
    <2>5. FailuresAreRecorded'
      BY <1>2 DEF EInv, FailuresAreRecorded, Recorded
    <2>6. VisibleIn(db)' /\ VisibleIn(txn)' /\ PagesFill'
      BY <1>2, <2>1, <2>3, CommentsStay DEF CommentsKept
    <2>7. PostsUnsettled'
      BY <1>2, <2>1 DEF PostsUnsettled
    <2>8. ActiveNotDelayed(db)'
      BY <1>2 DEF EInv, ActiveNotDelayed, ActiveRun
    <2>9. ActiveNotDelayed(txn)'
      <3> SUFFICES ASSUME NEW s \in RunId, ActiveRun(txn', s)
                   PROVE  ~txn'.asg[txn'.runs[s].key].retry
        BY DEF ActiveNotDelayed, ActiveRun
      <3>1. CASE txn'.runs[s].key = k
        BY <2>3, <3>1
      <3>2. CASE txn'.runs[s].key # k
        <4>1. txn'.runs[s] = txn.runs[s]
          BY <2>3, <3>2
        <4>2. txn.runs[s].key \in Key \ {k} /\ ~txn.asg[txn.runs[s].key].retry
          BY <3>2, <4>1 DEF IInv, Consistent, RunsLinked, ActiveRun, EInv, ActiveNotDelayed
        <4> QED BY <2>3, <4>1, <4>2
      <3> QED BY <3>1, <3>2
    <2>10. RunsKept'
      <3>1. ASSUME NEW s \in RunId, db.runs[s].status # "NONE"
            PROVE  txn'.runs[s].status # "NONE" /\ txn'.runs[s].key = db.runs[s].key
        <4>1. txn.runs[s].status # "NONE" /\ txn.runs[s].key = db.runs[s].key
          BY <3>1 DEF EInv, RunsKept
        <4> QED BY <1>2, <2>3, <4>1
      <3> QED BY <1>2, <3>1 DEF EInv, RunsKept, ActiveRun
    <2>11. StartsDue'
      BY <1>2, <2>1, <2>3 DEF EInv, StartsDue, Delayed
    <2>12. ASSUME NEW j \in Key PROVE RowMoves(j)'
      <3>1. RowMoves(j)
        BY DEF EInv
      <3>2. CASE j # k
        <4>1. txn'.asg[j] = txn.asg[j]
          BY <2>3, <3>2
        <4> QED BY <1>2, <3>1, <4>1 DEF RowMoves, Delayed
      <3>3. CASE j = k
        <4>1. ~Delayed(db, k)
          BY <2>1, <3>1, <3>3 DEF RowMoves, Delayed
        <4> QED BY <1>2, <2>3, <3>3, <4>1 DEF RowMoves, Delayed
      <3> QED BY <3>2, <3>3
    <2> QED BY <2>4, <2>5, <2>6, <2>7, <2>8, <2>9, <2>10, <2>11, <2>12 DEF EInv
  <1> QED BY <1>1, <1>2 DEF RecordStart

LEMMA CommandEffects ==
  ASSUME IInv, EInv, IInv', CommandStep
  PROVE  EInv'
  <1>1. CASE run_once \/ reconcile_only
    <2>1. Begin(TRUE) \/ Begin(FALSE)
      BY <1>1 DEF run_once, reconcile_only
    <2> QED BY <2>1, BeginEffects
  <1>2. CASE \E r \in RunId : ReconcileRun(r)
    BY <1>2, ReconcileRunEffects
  <1>3. CASE (\E r \in RunId : GetRunError(r)) \/ DiscoveryError
    <2>1. Rollback /\ gh' = gh
      BY <1>3 DEF GetRunError, DiscoveryError
    <2> QED BY <2>1, RollbackEffects
  <1>4. CASE AddLabels \/ RemoveLabel
    BY <1>4, LabelEffects
  <1>5. CASE ProviderError
    BY <1>5, ProviderErrorEffects
  <1>6. CASE \E answered \in BOOLEAN : PostComment(answered)
    BY <1>6, PostCommentEffects
  <1>7. CASE Discover
    BY <1>7, DiscoverEffects
  <1>8. ASSUME NEW k \in Key, StartFresh(k) \/ StartReplayed(k)
        PROVE  EInv'
    <2>1. PICK r \in RunId : RecordStart(k, r)
      BY <1>8 DEF StartFresh, StartReplayed
    <2>2. Submitting(k) /\ cooling' = cooling /\ gh' = gh
      BY <1>8 DEF StartFresh, StartReplayed
    <2> QED BY <2>1, <2>2, RecordStartEffects
  <1>9. ASSUME NEW k \in Key, SubmitError(k) \/ SubmitAnswerLost(k)
        PROVE  EInv'
    <2>1. Rollback /\ gh' = gh
      BY <1>9 DEF SubmitError, SubmitAnswerLost
    <2> QED BY <2>1, RollbackEffects
  <1>10. CASE EndCommand
    BY <1>10, EndCommandEffects
  <1> QED BY <1>1, <1>2, <1>3, <1>4, <1>5, <1>6, <1>7, <1>8, <1>9, <1>10 DEF CommandStep

LEMMA EnvironmentEffects ==
  ASSUME IInv, EInv, IInv', EnvironmentStep
  PROVE  EInv'
  <1>1. CASE requeue
    BY <1>1, RequeueEffects
  <1>2. CASE Kill \/ Restart
    <2>1. Rollback /\ gh' = gh
      BY <1>2 DEF Kill, Restart
    <2> QED BY <2>1, RollbackEffects
  <1>3. CASE \/ \E r \in RunId : GatewayFinishes(r) \/ RunAges(r)
             \/ \E k \in Key : RetryDelayElapses(k)
    <2>1. UNCHANGED <<db, command>> /\ cooling' \subseteq cooling /\ gh' = gh
      BY <1>3 DEF GatewayFinishes, RunAges, RetryDelayElapses
    <2>2. CommentsKept
      BY <2>1 DEF CommentsKept
    <2> QED BY <2>1, <2>2, EffectsFrame DEF command
  <1>4. ASSUME NEW i \in Item, EditIssue(i) \/ ToggleLabel(i) \/ ToggleAssignee(i) \/ HumanComment(i)
        PROVE  EInv'
    <2>1. UNCHANGED <<db, command>> /\ cooling' = cooling
      BY <1>4 DEF EditIssue, ToggleLabel, ToggleAssignee, HumanComment
    <2>2. gh \in [Item -> Issue] /\ gh[i] \in Issue
      BY DEF IInv, TypeOK
    <2>3. /\ \A j \in Item \ {i} : gh'[j] = gh[j]
          /\ gh'[i].first = gh[i].first /\ gh'[i].later = gh[i].later
          /\ gh'[i].dup = gh[i].dup
          /\ gh'[i].n = gh[i].n \/ gh[i].n < PageSize
      <3>1. CASE EditIssue(i)
        BY <2>2, <3>1 DEF EditIssue, Issue
      <3>2. CASE ToggleLabel(i)
        BY <2>2, <3>2 DEF ToggleLabel, Issue
      <3>3. CASE HumanComment(i)
        BY <2>2, <3>3 DEF HumanComment, Issue
      <3>4. CASE ToggleAssignee(i)
        BY <2>2, <3>4 DEF ToggleAssignee, Issue
      <3> QED BY <1>4, <3>1, <3>2, <3>3, <3>4
    <2>4. CommentsKept
      BY <2>3 DEF CommentsKept
    <2> QED BY <2>1, <2>4, EffectsFrame DEF command
  <1> QED BY <1>1, <1>2, <1>3, <1>4 DEF EnvironmentStep

LEMMA InitEffects == Init => EInv
  <1> SUFFICES ASSUME Init PROVE EInv
    OBVIOUS
  <1>1. /\ NewDatabase.trans = {}
        /\ \A r \in RunId : NewDatabase.runs[r].status = "NONE"
        /\ \A k \in Key : NewDatabase.asg[k].status = "NONE"
    BY DEF NewDatabase
  <1>2. db = NewDatabase /\ txn = NewDatabase /\ pc = "idle" /\ todo = {} /\ starts = {}
    BY DEF Init
  <1>3. RecordsDue /\ FailuresAreRecorded
    BY <1>1, <1>2 DEF RecordsDue, RecordedFailure, FailuresAreRecorded
  <1>4. VisibleIn(db) /\ VisibleIn(txn) /\ PostsUnsettled /\ StartsDue
    BY <1>1, <1>2 DEF VisibleIn, PostsUnsettled, StartsDue
  <1>5. PagesFill
    BY DEF Init, PagesFill, NewIssue
  <1>6. ActiveNotDelayed(db) /\ ActiveNotDelayed(txn) /\ RunsKept
    BY <1>1, <1>2 DEF ActiveNotDelayed, ActiveRun, RunsKept
  <1>7. \A k \in Key : RowMoves(k)
    BY <1>1, <1>2 DEF RowMoves, Delayed
  <1> QED BY <1>3, <1>4, <1>5, <1>6, <1>7 DEF EInv

\* Only the comment call posts, for the run it works on.
LEMMA WhoPosts ==
  ASSUME [Next]_vars
  PROVE  posted' = posted \/ \E answered \in BOOLEAN : PostComment(answered)
  <1>1. CASE CommandStep
    <2>1. ASSUME NEW r \in RunId, ReconcileRun(r) PROVE posted' = posted
      <3>1. ASSUME NEW v, CompleteRun(r, v) PROVE posted' = posted
        BY <3>1 DEF CompleteRun, Fail, SettleAndTransition, SettleSilently, notReconciling, history
      <3>2. CASE ParsedRun(r) \/ UnparsableRun(r)
        BY <3>1, <3>2
        DEF ParsedRun, UnparsableRun, Fail, SettleAndTransition, notReconciling, history
      <3>3. CASE TimeoutRun(r) \/ LostRun(r) \/ FailedRun(r) \/ UpstreamTimeoutRun(r)
        BY <3>3 DEF TimeoutRun, LostRun, FailedRun, UpstreamTimeoutRun, Fail,
          SettleAndTransition, RequeueLocally, notReconciling, history
      <3>4. CASE CancelledRun(r) \/ StillRunning(r)
        BY <3>4 DEF CancelledRun, StillRunning, SettleSilently, notReconciling, history
      <3> QED BY <2>1, <3>2, <3>3, <3>4 DEF ReconcileRun
    <2>2. CASE run_once \/ reconcile_only \/ Discover \/ EndCommand \/ DiscoveryError
      BY <2>2 DEF run_once, reconcile_only, Begin, Discover, EndCommand, DiscoveryError, history
    <2>3. CASE AddLabels \/ RemoveLabel \/ ProviderError
      BY <2>3 DEF AddLabels, RemoveLabel, ProviderError
    <2>4. CASE \E r \in RunId : GetRunError(r)
      BY <2>4 DEF GetRunError, history
    <2>5. ASSUME NEW k \in Key,
                 StartFresh(k) \/ StartReplayed(k) \/ SubmitError(k) \/ SubmitAnswerLost(k)
          PROVE  posted' = posted
      BY <2>5 DEF StartFresh, StartReplayed, SubmitError, SubmitAnswerLost, history
    <2> QED BY <1>1, <2>1, <2>2, <2>3, <2>4, <2>5 DEF CommandStep
  <1>2. CASE EnvironmentStep
    BY <1>2 DEF EnvironmentStep, requeue, Kill, Restart, GatewayFinishes, RunAges,
      RetryDelayElapses, EditIssue, ToggleLabel, ToggleAssignee, HumanComment, history
  <1>3. CASE UNCHANGED vars
    BY <1>3 DEF vars, history
  <1> QED BY <1>1, <1>2, <1>3 DEF Next

\* The steps that another process can see in the queue: a commit, a requeue, and a delay
\* that elapses.  A delay that begins is not seen yet: the run being reconciled is
\* ACTIVE in the committed database, whose row has no next_retry_at.
Unseen == db' = db /\ \A k \in Key : db.asg[k].retry => (k \in cooling' <=> k \in cooling)

LEMMA ReconcileUnseen ==
  ASSUME IInv, EInv, NEW r \in RunId, ReconcileRun(r)
  PROVE  Unseen
  <1>1. ASSUME NEW v, CompleteRun(r, v) PROVE db' = db /\ cooling' = cooling
    BY <1>1 DEF CompleteRun, Fail, SettleAndTransition, SettleSilently, notReconciling
  <1>2. CASE ParsedRun(r) \/ UnparsableRun(r)
    <2>1. db' = db /\ cooling' = cooling
      BY <1>1, <1>2 DEF ParsedRun, UnparsableRun, Fail, SettleAndTransition, notReconciling
    <2> QED BY <2>1 DEF Unseen
  <1>3. ASSUME NEW rs, NEW tag, RequeueLocally(r, rs, tag), NextRun(r)
        PROVE  Unseen
    <2>1. db' = db /\ cooling \subseteq cooling' /\ cooling' \subseteq cooling \cup {RunKey(r)}
      BY <1>3 DEF RequeueLocally, notReconciling
    <2>2. ActiveRun(db, r) /\ RunKey(r) = db.runs[r].key
      BY <1>3 DEF NextRun, EInv, RunsKept, ActiveRun, RunKey
    <2>3. ~db.asg[RunKey(r)].retry
      BY <2>2 DEF EInv, ActiveNotDelayed
    <2> QED BY <2>1, <2>3 DEF Unseen
  <1>4. ASSUME NEW rs, NEW as, NEW st, Fail(r, rs, as, st) \/ SettleSilently(r, rs, as)
        PROVE  Unseen
    <2>1. db' = db /\ cooling' = cooling
      BY <1>4 DEF Fail, SettleAndTransition, SettleSilently, notReconciling
    <2> QED BY <2>1 DEF Unseen
  <1>5. CASE LostRun(r)
    BY <1>3, <1>4, <1>5 DEF LostRun, Observed
  <1>6. CASE FailedRun(r)
    BY <1>3, <1>4, <1>6 DEF FailedRun, Observed
  <1>7. CASE TimeoutRun(r) \/ UpstreamTimeoutRun(r) \/ CancelledRun(r)
    BY <1>4, <1>7 DEF TimeoutRun, UpstreamTimeoutRun, CancelledRun
  <1>8. CASE StillRunning(r)
    BY <1>8 DEF StillRunning, notReconciling, Unseen
  <1> QED BY <1>2, <1>5, <1>6, <1>7, <1>8 DEF ReconcileRun

LEMMA WhatIsSeen ==
  ASSUME IInv, EInv, [Next]_vars
  PROVE  \/ Unseen
         \/ db' = txn /\ cooling' = cooling
         \/ requeue
         \/ \E k \in Key : RetryDelayElapses(k)
  <1>1. CASE CommandStep
    <2>1. CASE \E r \in RunId : ReconcileRun(r)
      BY <2>1, ReconcileUnseen
    <2>2. CASE run_once \/ reconcile_only \/ Discover
      BY <2>2 DEF run_once, reconcile_only, Begin, Discover, Unseen
    <2>3. CASE \/ AddLabels \/ RemoveLabel \/ ProviderError
               \/ \E answered \in BOOLEAN : PostComment(answered)
      BY <2>3 DEF AddLabels, RemoveLabel, ProviderError, PostComment, notProvider, Unseen
    <2>4. CASE DiscoveryError \/ \E r \in RunId : GetRunError(r)
      BY <2>4 DEF GetRunError, DiscoveryError, Rollback, Unseen
    <2>5. ASSUME NEW k \in Key,
                 StartFresh(k) \/ StartReplayed(k) \/ SubmitError(k) \/ SubmitAnswerLost(k)
          PROVE  db' = db /\ cooling' = cooling
      BY <2>5 DEF StartFresh, StartReplayed, SubmitError, SubmitAnswerLost, RecordStart, Rollback
    <2>6. CASE EndCommand
      BY <2>6 DEF EndCommand, Commit
    <2>7. (db' = db /\ cooling' = cooling) => Unseen
      BY DEF Unseen
    <2> QED BY <1>1, <2>1, <2>2, <2>3, <2>4, <2>5, <2>6, <2>7 DEF CommandStep
  <1>2. CASE EnvironmentStep
    BY <1>2 DEF EnvironmentStep, Kill, Restart, Rollback, GatewayFinishes, RunAges,
      EditIssue, ToggleLabel, ToggleAssignee, HumanComment, Unseen
  <1>3. CASE UNCHANGED vars
    BY <1>3 DEF vars, Unseen
  <1> QED BY <1>1, <1>2, <1>3 DEF Next

\* How status_snapshot.py classifies a row.
Class(row, k, delays) ==
  CASE row.status = "NONE" -> "none"
    [] row.status = "PENDING" -> IF row.retry /\ k \in delays THEN "delayed" ELSE "due"
    [] row.status \in {"STARTED", "COMPLETED"} -> row.status
    [] OTHER -> "blocked"

LEMMA Classified ==
  ASSUME NEW row \in AssignmentRow, NEW k, NEW delays
  PROVE  /\ row.status = "NONE" => Class(row, k, delays) = "none"
         /\ row.status = "PENDING" /\ row.retry /\ k \in delays => Class(row, k, delays) = "delayed"
         /\ row.status = "PENDING" /\ ~(row.retry /\ k \in delays) => Class(row, k, delays) = "due"
         /\ row.status = "STARTED" => Class(row, k, delays) = "STARTED"
         /\ row.status = "COMPLETED" => Class(row, k, delays) = "COMPLETED"
         /\ row.status \in FinalStatus \ {"COMPLETED"} => Class(row, k, delays) = "blocked"
         /\ row.status \in {"NONE", "PENDING", "STARTED", "COMPLETED"}
              \cup (FinalStatus \ {"COMPLETED"})
         /\ Class(row, k, delays) \in RQ!Status
  <1>1. row.status \in AssignmentStatus
    BY DEF AssignmentRow
  <1>2. row.status \in {"NONE", "PENDING", "STARTED", "COMPLETED"}
              \cup (FinalStatus \ {"COMPLETED"})
    BY <1>1 DEF FinalStatus
  <1>3. row.status = "NONE" => Class(row, k, delays) = "none"
    BY DEF Class
  <1>4. /\ row.status = "PENDING" /\ row.retry /\ k \in delays => Class(row, k, delays) = "delayed"
        /\ row.status = "PENDING" /\ ~(row.retry /\ k \in delays) => Class(row, k, delays) = "due"
    BY DEF Class
  <1>5. /\ row.status = "STARTED" => Class(row, k, delays) = "STARTED"
        /\ row.status = "COMPLETED" => Class(row, k, delays) = "COMPLETED"
    BY DEF Class
  <1>6. row.status \in FinalStatus \ {"COMPLETED"} => Class(row, k, delays) = "blocked"
    BY DEF Class, FinalStatus
  <1>7. Class(row, k, delays) \in RQ!Status
    BY <1>2, <1>3, <1>4, <1>5, <1>6 DEF RQ!Status
  <1> QED BY <1>2, <1>3, <1>4, <1>5, <1>6, <1>7

\* QueueRows' table, by the row it starts from.
LEMMA MovesOfNone == {"due", "STARTED"} \subseteq RQ!TickMoves("none")
  BY DEF RQ!TickMoves, RQ!Status

LEMMA MovesOfDue ==
  {"STARTED", "due", "delayed", "blocked", "COMPLETED"} \subseteq RQ!TickMoves("due")
  BY DEF RQ!TickMoves, RQ!Status

LEMMA MovesOfStarted ==
  {"due", "delayed", "blocked", "COMPLETED"} \subseteq RQ!TickMoves("STARTED")
  BY DEF RQ!TickMoves, RQ!Status

\* What a command may commit of one row.
LEMMA CommittedMove ==
  ASSUME IInv, EInv, NEW k \in Key
  PROVE  LET s == Class(db.asg[k], k, cooling)
             t == Class(txn.asg[k], k, cooling)
         IN t \in RQ!TickMoves(s) \cup {s}
  <1> DEFINE s == Class(db.asg[k], k, cooling)
             t == Class(txn.asg[k], k, cooling)
  <1>1. db.asg[k] \in AssignmentRow /\ txn.asg[k] \in AssignmentRow
    BY DEF IInv, TypeOK, Database
  <1>2. RowMoves(k) /\ (db.asg[k].status \in FinalStatus => txn.asg[k] = db.asg[k])
    BY DEF EInv, IInv, FinalRowsKept
  <1>3. t \in {"none", "due", "delayed", "STARTED", "blocked", "COMPLETED"}
    BY <1>1, Classified DEF RQ!Status
  <1>4. CASE db.asg[k].status \in FinalStatus
    BY <1>2, <1>4
  <1>5. CASE Delayed(db, k)
    BY <1>2, <1>5 DEF RowMoves
  <1>6. CASE db.asg[k].status = "STARTED" \/ (db.asg[k].status = "PENDING" /\ ~Delayed(db, k))
    <2>1. s \in {"due", "STARTED"}
      BY <1>1, <1>6, Classified DEF Delayed
    <2>2. txn.asg[k].status # "NONE"
      BY <1>2, <1>6 DEF RowMoves
    <2>3. t # "none"
      BY <1>1, <2>2, Classified
    <2> HIDE DEF s, t
    <2>4. t \in RQ!TickMoves(s) \cup {s}
      <3>1. CASE s = "due"
        BY <1>3, <2>3, <3>1, MovesOfDue
      <3>2. CASE s = "STARTED"
        BY <1>3, <2>3, <3>2, MovesOfStarted
      <3> QED BY <2>1, <3>1, <3>2
    <2> QED BY <2>4 DEF s, t
  <1>7. CASE db.asg[k].status = "NONE"
    <2>1. \/ txn.asg[k].status \in {"NONE", "STARTED"}
          \/ txn.asg[k].status = "PENDING" /\ ~txn.asg[k].retry
      BY <1>2, <1>7 DEF RowMoves
    <2>2. t \in {"none", "STARTED", "due"} /\ s = "none"
      BY <1>1, <1>7, <2>1, Classified
    <2> HIDE DEF s, t
    <2>3. t \in RQ!TickMoves(s) \cup {s}
      BY <2>2, MovesOfNone
    <2> QED BY <2>3 DEF s, t
  <1>8. db.asg[k].status \in {"NONE", "PENDING", "STARTED"} \cup FinalStatus
    BY <1>1 DEF AssignmentRow, FinalStatus
  <1> QED BY <1>4, <1>5, <1>6, <1>7, <1>8

\* Every step of the orchestrator is a step of RoleQueue, or invisible to it.
LEMMA QueueStep ==
  ASSUME IInv, EInv, IInv', [Next]_vars
  PROVE  [RQ!Next]_([k \in Key |-> QueueStatus(k)])
  <1> DEFINE q == [k \in Key |-> Class(db.asg[k], k, cooling)]
             qq == [k \in Key |-> Class(db'.asg[k], k, cooling')]
  <1>1. /\ [k \in Key |-> QueueStatus(k)] = q /\ [k \in Key |-> QueueStatus(k)]' = qq
    BY DEF QueueStatus, Class
  <1>2. /\ \A k \in Key : db.asg[k] \in AssignmentRow /\ db'.asg[k] \in AssignmentRow
    BY DEF IInv, TypeOK, Database
  <1>3. /\ q \in [Key -> RQ!Status] /\ qq \in [Key -> RQ!Status]
    <2>1. ASSUME NEW k \in Key
          PROVE  /\ Class(db.asg[k], k, cooling) \in RQ!Status
                 /\ Class(db'.asg[k], k, cooling') \in RQ!Status
      BY <1>2, Classified
    <2> QED BY <2>1
  <1>4. CASE Unseen
    <2>1. ASSUME NEW k \in Key PROVE qq[k] = q[k]
      <3>1. CASE db.asg[k].retry
        BY <1>4, <3>1 DEF Unseen, Class
      <3>2. CASE ~db.asg[k].retry
        BY <1>4, <3>2 DEF Unseen, Class
      <3> QED BY <3>1, <3>2
    <2>2. qq = q
      BY <1>3, <2>1
    <2> QED BY <1>1, <2>2
  <1>5. CASE db' = txn /\ cooling' = cooling
    <2>1. \A k \in Key : qq[k] \in RQ!TickMoves(q[k]) \cup {q[k]}
      BY <1>5, CommittedMove
    <2> QED BY <1>1, <1>3, <2>1 DEF RQ!Next, RQ!Tick
  <1>6. CASE requeue
    <2>1. PICK ks \in SUBSET Key :
            /\ \A k \in ks : db.asg[k].status # "NONE"
            /\ db' = requeue_assignments(db, ks) /\ cooling' = cooling
      <3>1. init_db(db) = db
        BY InitDbIsIdentity DEF IInv, TypeOK
      <3>2. PICK statuses \in {SafeStatuses, ForcedStatuses} :
            \E ks \in SUBSET {k \in Key : db.asg[k].status \in statuses \ {"NONE"}} :
              db' = requeue_assignments(init_db(db), ks)
        BY <1>6 DEF requeue
      <3>3. \A ks \in SUBSET {k \in Key : db.asg[k].status \in statuses \ {"NONE"}} :
              ks \in SUBSET Key /\ \A k \in ks : db.asg[k].status # "NONE"
        OBVIOUS
      <3>4. cooling' = cooling
        BY <1>6 DEF requeue
      <3> QED BY <3>1, <3>2, <3>3, <3>4
    <2>2. \A k \in Key : IF k \in ks THEN db'.asg[k].status = "PENDING" /\ ~db'.asg[k].retry
                         ELSE db'.asg[k] = db.asg[k]
      <3>1. db \in Database
        BY DEF IInv, TypeOK
      <3>2. Requeued(db, db', ks)
        BY <2>1, <3>1, RequeuedRows
      <3> QED BY <3>2 DEF Requeued
    <2>3. ASSUME NEW k \in Key PROVE qq[k] \in RQ!RequeueMoves(q[k]) \cup {q[k]}
      <3>1. CASE k \in ks
        <4>1. Class(db'.asg[k], k, cooling') = "due"
          BY <1>2, <2>2, <3>1, Classified
        <4>2. Class(db.asg[k], k, cooling) # "none"
          BY <1>2, <2>1, <3>1, Classified
        <4> QED BY <4>1, <4>2 DEF RQ!RequeueMoves
      <3>2. CASE k \notin ks
        BY <2>1, <2>2, <3>2
      <3> QED BY <3>1, <3>2
    <2> QED BY <1>1, <1>3, <2>3 DEF RQ!Next, RQ!Requeue
  <1>7. ASSUME NEW k \in Key, RetryDelayElapses(k)
        PROVE  [RQ!Next]_([j \in Key |-> QueueStatus(j)])
    <2>1. k \in cooling /\ cooling' = cooling \ {k} /\ db' = db
      BY <1>7 DEF RetryDelayElapses
    <2>2. \A j \in Key \ {k} : qq[j] = q[j]
      <3>1. \A j \in Key \ {k} : j \in cooling' <=> j \in cooling
        BY <2>1
      <3> QED BY <2>1, <3>1 DEF Class
    <2>3. CASE db.asg[k].status = "PENDING" /\ db.asg[k].retry
      <3>1. Class(db.asg[k], k, cooling) = "delayed"
        BY <1>2, <2>1, <2>3, Classified
      <3>2. Class(db'.asg[k], k, cooling') = "due"
        BY <1>2, <2>1, <2>3, Classified
      <3>3. q[k] = "delayed" /\ qq[k] = "due"
        BY <3>1, <3>2
      <3>4. qq = [q EXCEPT ![k] = "due"]
        <4> HIDE DEF q, qq
        <4> QED BY <1>3, <2>2, <3>3
      <3> QED BY <1>1, <3>3, <3>4 DEF RQ!Next, RQ!RetryComes
    <2>4. CASE ~(db.asg[k].status = "PENDING" /\ db.asg[k].retry)
      <3>1. qq[k] = q[k]
        BY <2>1, <2>4 DEF Class
      <3>2. qq = q
        <4> HIDE DEF q, qq
        <4> QED BY <1>3, <2>2, <3>1
      <3> QED BY <1>1, <3>2
    <2> QED BY <2>3, <2>4
  <1> QED BY <1>4, <1>5, <1>6, <1>7, WhatIsSeen

-----------------------------------------------------------------------------
(* The theorems about transitions, comments and the queue                  *)

\* The second invariant: the open transaction owes a failed run its row only while the
\* adapter works on it, applied rows have their comments, comments fill the first page
\* first, and the transaction moves the committed rows as RoleQueue allows.
THEOREM EffectsInvariance == Spec => [](IInv /\ EInv)
  <1>1. Init => EInv
    BY InitEffects
  <1>2. IInv /\ EInv /\ IInv' /\ [Next]_vars => EInv'
    <2> SUFFICES ASSUME IInv, EInv, IInv', [Next]_vars PROVE EInv'
      OBVIOUS
    <2>1. CASE CommandStep
      BY <2>1, CommandEffects
    <2>2. CASE EnvironmentStep
      BY <2>2, EnvironmentEffects
    <2>3. CASE UNCHANGED vars
      <3>1. UNCHANGED <<db, command>> /\ cooling' = cooling /\ gh' = gh
        BY <2>3 DEF vars
      <3> QED BY <3>1, EffectsFrame DEF command, CommentsKept
    <2> QED BY <2>1, <2>2, <2>3 DEF Next
  <1> QED BY <1>1, <1>2, Invariance, PTL DEF Spec

\* mark_run_finished and record_transition commit together: no timed-out, invalid or
\* stale run is committed without its transitions row, although the adapter's calls,
\* failures and kills lie between the two statements.
THEOREM FailuresRecorded == Spec => []FailuresAreRecorded
  <1>1. EInv => FailuresAreRecorded
    BY DEF EInv
  <1> QED BY <1>1, EffectsInvariance, PTL

\* A committed row with provider_applied has its comment on the issue, however long
\* the issue's list of comments has become.
THEOREM AppliedVisible == Spec => []AppliedIsVisible
  <1>1. EInv => AppliedIsVisible
    BY DEF EInv, VisibleIn, AppliedIsVisible
  <1> QED BY <1>1, EffectsInvariance, PTL

\* _comment_exists keeps the markers of the page it reads unique, for every page size.
THEOREM MarkersUnique == Spec => []FirstPageMarkersUnique
  <1>1. EInv => FirstPageMarkersUnique
    BY DEF EInv, PagesFill, FirstPageMarkersUnique
  <1> QED BY <1>1, EffectsInvariance, PTL

\* apply_issue_transition runs before the commit: of a run the committed database has
\* settled nothing more is posted, after any crash, restart or repeated tick.
THEOREM NothingPostedLate == Spec => NoVerdictAfterCommit
  <1>1. ASSUME IInv, EInv, [Next]_vars, NEW r \in RunId,
               db.runs[r].status \notin {"NONE", "ACTIVE"}
        PROVE  posted'[r] = posted[r]
    <2>1. CASE posted' = posted
      BY <2>1
    <2>2. CASE \E answered \in BOOLEAN : PostComment(answered)
      <3>1. /\ pc = "provider"
            /\ posted' = [posted EXCEPT ![out.run] = posted[out.run] \cup {out.status}]
        BY <2>2 DEF PostComment
      <3>2. r # out.run
        BY <1>1, <3>1 DEF EInv, PostsUnsettled, Settled
      <3> QED BY <1>1, <3>1, <3>2 DEF IInv, TypeOK
    <2> QED BY <1>1, <2>1, <2>2, WhoPosts
  <1>2. IInv /\ EInv /\ [Next]_vars =>
          [\A r \in RunId : db.runs[r].status \notin {"NONE", "ACTIVE"} =>
             posted'[r] = posted[r]]_<<posted, db>>
    BY <1>1
  <1> QED BY <1>2, EffectsInvariance, PTL DEF Spec, NoVerdictAfterCommit

\* The orchestrator implements RoleQueue for every configuration: what other processes
\* read of the assignments table moves as the abstract queue says.
THEOREM QueueRefined == Spec => ImplementsQueue
  <1>1. Init => RQ!Init
    <2> SUFFICES ASSUME Init PROVE RQ!Init
      OBVIOUS
    <2>1. \A k \in Key : db.asg[k].status = "NONE"
      BY DEF Init, NewDatabase
    <2>2. \A k \in Key : QueueStatus(k) = "none"
      BY <2>1 DEF QueueStatus
    <2> QED BY <2>2 DEF RQ!Init
  <1>2. IInv /\ EInv /\ IInv' /\ [Next]_vars => [RQ!Next]_([k \in Key |-> QueueStatus(k)])
    BY QueueStep
  <1> QED BY <1>1, <1>2, EffectsInvariance, PTL DEF Spec, ImplementsQueue, RQ!Spec
=============================================================================
