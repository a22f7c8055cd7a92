----------------------- MODULE DynamicAuthorityProofs -----------------------
(***************************************************************************)
(* For any number of handler threads, tools, call scopes and grants: a     *)
(* one-shot grant releases one upstream request, the one it was given for, *)
(* and nothing above the ceiling goes out without a human's word.          *)
(***************************************************************************)
EXTENDS DynamicAuthority, TLAPS

\* An operator has released the tool of call c from the ceiling, or it is below it.
Authorized(c) ==
  \/ category(c[1]) <= MaxAuto
  \/ c[1] \in exceptions
  \/ overrides[capability(c[1])] # NoOverride

\* What makes GrantFitsCall and OneShot inductive: only a forwarding thread that
\* needed a human holds a grant, and it serves a tool call.
HoldersForward ==
  \A w \in Worker : held[w] # 0 => pc[w] = "forward" /\ human[w] /\ req[w] # Discovery

\* A released grant is spent, and a spent one was given to a tool call.
ReleasedIsSpent ==
  \A g \in Grant : /\ released[g] # 0 => grants[g].consumed
                   /\ grants[g].consumed => grants[g].context # Discovery

\* The snapshot's verdict "no human required" stays justified while it is used:
\* exceptions and overrides are never taken back.
VerdictJustified ==
  \A w \in Worker : req[w] # Discovery /\ ~human[w] => Authorized(req[w])

\* A thread that forwards on a human's authority holds its grant, and a thread past
\* discovery serves a tool call.
CallsTyped ==
  \A w \in Worker :
    /\ pc[w] = "forward" /\ human[w] => held[w] # 0
    /\ pc[w] \in {"authorize", "check", "record", "minted", "consume"} => req[w] # Discovery
    /\ pc[w] = "consume" => human[w]
    /\ human[w] => req[w] # Discovery

IInv ==
  /\ TypeOK /\ OneShot /\ GrantFitsCall
  /\ HoldersForward /\ ReleasedIsSpent /\ VerdictJustified /\ CallsTyped

-----------------------------------------------------------------------------
(* Lemmas                                                                  *)

\* Categories compare with the ceiling: they are integers.
LEMMA CategoryType == \A t : category(t) \in 1..3
BY DEF category, LOW, MEDIUM, HIGH

\* A call is never the empty tuple that stands for discovery.
LEMMA CallIsNotDiscovery == \A c \in Context : c # Discovery /\ c[1] \in Tools
BY DEF Context, Discovery

\* Overrides are kept for every capability of the instance.
LEMMA CapabilityType == \A t \in Tools : capability(t) \in Capabilities
BY DEF Capabilities

\* requires_human says no only to a call the operators or the ceiling allow.
LEMMA VerdictSound ==
  ASSUME TypeOK, NEW c \in Context, ~requires_human(c)
  PROVE  Authorized(c)
<1>1. c # Discovery /\ c[1] \in Tools
  BY CallIsNotDiscovery
<1>2. category(c[1]) \in Int /\ MaxAuto \in Int
  BY GatewayAssumption, CategoryType
<1>3. effective(c[1]) <= MaxAuto \/ c[1] \in exceptions
  <2>1. ASSUME overrides[capability(c[1])] # NoOverride
        PROVE  overrides[capability(c[1])] \in Int
    BY <1>1, CapabilityType DEF TypeOK, Override, NoOverride
  <2>2. effective(c[1]) \in Int
    BY <1>2, <2>1 DEF effective
  <2> QED
    BY <1>1, <1>2, <2>2 DEF requires_human
<1> QED
  BY <1>3 DEF effective, Authorized

\* The initial state satisfies the inductive invariant.
LEMMA InitInvariant == Init => IInv
<1> SUFFICES ASSUME Init PROVE IInv
  OBVIOUS
<1>1. TypeOK
  <2>1. grants \in [Grant -> GrantRow]
    BY DEF Init, GrantRow
  <2>2. overrides \in Override
    BY DEF Init, Override, NoOverride
  <2>3. approvals \in [Context -> ApprovalStatus]
    BY DEF Init, ApprovalStatus
  <2> QED
    BY <2>1, <2>2, <2>3 DEF Init, TypeOK
<1>2. OneShot /\ GrantFitsCall /\ HoldersForward
  BY DEF Init, OneShot, GrantFitsCall, HoldersForward, Grant
<1>3. ReleasedIsSpent /\ VerdictJustified /\ CallsTyped
  BY DEF Init, ReleasedIsSpent, VerdictJustified, CallsTyped
<1> QED
  BY <1>1, <1>2, <1>3 DEF IInv

\* A thread that takes up a call holds nothing and has a justified verdict.
LEMMA SnapshotStep ==
  ASSUME IInv, NEW w \in Worker, NEW c \in Context \cup {Discovery}, TakeSnapshot(w, c)
  PROVE  IInv'
<1> USE DEF TakeSnapshot, Goto, store
<1>1. TypeOK'
  <2>1. requires_human(c) \in BOOLEAN
    BY DEF requires_human
  <2> QED
    BY <2>1 DEF IInv, TypeOK
<1>2. held[w] = 0
  BY DEF IInv, HoldersForward, TypeOK
<1>3. (OneShot /\ GrantFitsCall /\ ReleasedIsSpent)'
  BY <1>2 DEF IInv, OneShot, GrantFitsCall, ReleasedIsSpent, TypeOK
<1>4. (HoldersForward /\ CallsTyped)'
  BY <1>2 DEF IInv, HoldersForward, CallsTyped, TypeOK, requires_human
<1>5. VerdictJustified'
  BY VerdictSound DEF IInv, VerdictJustified, TypeOK, Authorized
<1> QED
  BY <1>1, <1>3, <1>4, <1>5 DEF IInv

\* A thread that answers drops its call: the grants and what was released are the same.
LEMMA AnswerStep ==
  ASSUME IInv, NEW w \in Worker, Answer(w),
         UNCHANGED <<stop, exceptions, overrides, grants, released>>,
         approvals' \in [Context -> ApprovalStatus]
  PROVE  IInv'
<1> USE DEF Answer, Goto
<1>1. TypeOK'
  BY DEF IInv, TypeOK
<1>2. (OneShot /\ GrantFitsCall /\ ReleasedIsSpent)'
  <2>1. \A v \in Worker : held'[v] = IF v = w THEN 0 ELSE held[v]
    BY DEF IInv, TypeOK
  <2>2. OneShot'
    BY <2>1 DEF IInv, OneShot, Grant
  <2> QED
    BY <2>1, <2>2 DEF IInv, GrantFitsCall, ReleasedIsSpent, TypeOK
<1>3. (HoldersForward /\ CallsTyped)'
  BY DEF IInv, HoldersForward, CallsTyped, TypeOK
<1>4. VerdictJustified'
  BY DEF IInv, VerdictJustified, TypeOK, Authorized
<1> QED
  BY <1>1, <1>2, <1>3, <1>4 DEF IInv

\* A thread that only moves on, holding nothing, disturbs nothing, whatever it reads on
\* the clock; it may reach "forward" only without a human verdict, and "consume" only
\* with one.
LEMMA MoveStep ==
  ASSUME IInv, NEW w \in Worker,
         NEW label \in {"check", "record", "mint", "minted", "consume", "forward"},
         Goto(w, label), UNCHANGED <<store, req, human, held, released>>,
         asof' \in [Worker -> SUBSET Grant],
         pc[w] # "forward",
         label \in {"check", "record", "minted", "consume"} => req[w] # Discovery,
         label = "forward" => ~human[w],
         label = "consume" => human[w]
  PROVE  IInv'
<1> USE DEF Goto, store
<1>1. TypeOK'
  BY DEF IInv, TypeOK
<1>2. held[w] = 0
  BY DEF IInv, HoldersForward, TypeOK
<1>3. (OneShot /\ GrantFitsCall /\ ReleasedIsSpent)'
  BY DEF IInv, OneShot, GrantFitsCall, ReleasedIsSpent, TypeOK
<1>4. (HoldersForward /\ CallsTyped)'
  BY <1>2 DEF IInv, HoldersForward, CallsTyped, TypeOK
<1>5. VerdictJustified'
  BY DEF IInv, VerdictJustified, TypeOK, Authorized
<1> QED
  BY <1>1, <1>3, <1>4, <1>5 DEF IInv

\* consume_execution_grant hands out a grant that nobody holds and nothing was
\* released on, for exactly the thread's call.
LEMMA ConsumeStep ==
  ASSUME IInv, NEW w \in Worker, consume_execution_grant(w)
  PROVE  IInv'
<1>1. PICK g \in matching_grants(req[w], asof[w]) :
        /\ grants' = [grants EXCEPT ![g].consumed = TRUE]
        /\ held' = [held EXCEPT ![w] = g]
  BY DEF consume_execution_grant
<1>2. g \in Grant /\ grants[g].context = req[w] /\ ~grants[g].consumed
  BY DEF matching_grants
<1>3. /\ pc' = [pc EXCEPT ![w] = "forward"] /\ pc[w] = "consume" /\ human[w]
      /\ asof' = [asof EXCEPT ![w] = {}]
      /\ UNCHANGED <<stop, exceptions, overrides, approvals, req, human, released>>
  BY DEF consume_execution_grant, Goto, IInv, CallsTyped
<1>4. req[w] # Discovery /\ g # 0
  BY <1>2, <1>3 DEF IInv, CallsTyped, Grant
<1>5. /\ \A h \in Grant : h # g => grants'[h] = grants[h]
      /\ grants'[g].consumed /\ grants'[g].context = grants[g].context
  BY <1>1, <1>2 DEF IInv, TypeOK, GrantRow
<1>6. TypeOK'
  <2>1. grants' \in [Grant -> GrantRow]
    BY <1>1, <1>2 DEF IInv, TypeOK, GrantRow
  <2> QED
    BY <1>1, <1>2, <1>3, <2>1 DEF IInv, TypeOK
<1>7. \A v \in Worker : held[v] # g
  BY <1>2 DEF IInv, OneShot
<1>8. released[g] = 0
  BY <1>2 DEF IInv, ReleasedIsSpent
<1>9. OneShot'
  BY <1>1, <1>2, <1>3, <1>5, <1>7, <1>8 DEF IInv, OneShot, TypeOK
<1>10. GrantFitsCall'
  BY <1>1, <1>2, <1>3, <1>5 DEF IInv, GrantFitsCall, TypeOK
<1>11. ReleasedIsSpent'
  BY <1>2, <1>3, <1>4, <1>5 DEF IInv, ReleasedIsSpent
<1>12. (HoldersForward /\ CallsTyped)'
  BY <1>1, <1>3, <1>4 DEF IInv, HoldersForward, CallsTyped, TypeOK
<1>13. VerdictJustified'
  BY <1>3 DEF IInv, VerdictJustified, Authorized
<1> QED
  BY <1>6, <1>9, <1>10, <1>11, <1>12, <1>13 DEF IInv

\* forward releases one request on the grant the thread holds, and gives it up.
LEMMA ForwardStep ==
  ASSUME IInv, NEW w \in Worker, Forward(w)
  PROVE  IInv'
<1> USE DEF Forward, Answer, Goto, store
<1>1. TypeOK'
  <2>1. released' \in [Grant -> Nat]
    BY DEF IInv, TypeOK
  <2> QED
    BY <2>1 DEF IInv, TypeOK
<1>2. \A g \in Grant : released'[g] = IF g = held[w] THEN released[g] + 1 ELSE released[g]
  OBVIOUS
<1>3. \A v \in Worker : held'[v] = IF v = w THEN 0 ELSE held[v]
  BY DEF IInv, TypeOK
<1>4. OneShot'
  BY <1>2, <1>3 DEF IInv, OneShot, TypeOK, Grant
<1>5. GrantFitsCall'
  BY <1>3 DEF IInv, GrantFitsCall, TypeOK
<1>6. ReleasedIsSpent'
  BY <1>2 DEF IInv, ReleasedIsSpent, OneShot, TypeOK
<1>7. (HoldersForward /\ CallsTyped)'
  BY DEF IInv, HoldersForward, CallsTyped, TypeOK
<1>8. VerdictJustified'
  BY DEF IInv, VerdictJustified, TypeOK, Authorized
<1> QED
  BY <1>1, <1>4, <1>5, <1>6, <1>7, <1>8 DEF IInv

\* The operators only add authority, so every verdict in use stays justified.
LEMMA OperatorStep ==
  ASSUME IInv, UNCHANGED <<grants, thread, released>>,
         stop' \in BOOLEAN, exceptions' \in SUBSET Tools, overrides' \in Override,
         approvals' \in [Context -> ApprovalStatus],
         exceptions \subseteq exceptions',
         \A p \in Capabilities : overrides[p] # NoOverride => overrides'[p] # NoOverride
  PROVE  IInv'
<1> USE DEF thread
<1>1. TypeOK'
  BY DEF IInv, TypeOK
<1>2. (OneShot /\ GrantFitsCall /\ HoldersForward /\ ReleasedIsSpent /\ CallsTyped)'
  BY DEF IInv, OneShot, GrantFitsCall, HoldersForward, ReleasedIsSpent, CallsTyped
<1>3. VerdictJustified'
  <2> SUFFICES ASSUME NEW w \in Worker, req[w] # Discovery, ~human[w]
               PROVE  Authorized(req[w])'
    BY DEF VerdictJustified
  <2>1. req[w] \in Context /\ req' = req
    BY DEF IInv, TypeOK
  <2>2. Authorized(req[w])
    BY DEF IInv, VerdictJustified
  <2>3. req[w][1] \in Tools
    BY <2>1, CallIsNotDiscovery
  <2> QED
    BY <2>1, <2>2, <2>3, CapabilityType DEF Authorized
<1> QED
  BY <1>1, <1>2, <1>3 DEF IInv

\* Decide keeps the approvals well formed.
LEMMA DecideType ==
  ASSUME TypeOK, NEW pending, NEW status \in ApprovalStatus, Decide(pending, status)
  PROVE  approvals' \in [Context -> ApprovalStatus]
BY DEF TypeOK, Decide

\* grant_once fills a row nobody holds, for a call.
LEMMA GrantStep ==
  ASSUME IInv, NEW c \in Context, grant_once(c)
  PROVE  IInv'
<1>1. PICK g \in Grant :
        /\ grants[g].context = Discovery
        /\ grants' = [grants EXCEPT ![g] = [context |-> c, consumed |-> FALSE, expired |-> FALSE]]
  BY DEF grant_once
<1>2. approvals' = [approvals EXCEPT ![c] = "APPROVED_ONCE"]
      /\ UNCHANGED <<stop, exceptions, overrides, thread, released>>
  BY DEF grant_once
<1>3. \A h \in Grant : h # g => grants'[h] = grants[h]
  BY <1>1 DEF IInv, TypeOK
<1>4. grants'[g].context = c /\ ~grants'[g].consumed
  BY <1>1 DEF IInv, TypeOK
<1>5. ~grants[g].consumed
  BY <1>1 DEF IInv, ReleasedIsSpent
<1>6. (\A v \in Worker : held[v] # g) /\ released[g] = 0
  BY <1>5 DEF IInv, OneShot, ReleasedIsSpent
<1>7. TypeOK'
  <2>1. grants' \in [Grant -> GrantRow]
    BY <1>1 DEF IInv, TypeOK, GrantRow
  <2>2. approvals' \in [Context -> ApprovalStatus]
    BY <1>2 DEF IInv, TypeOK, ApprovalStatus
  <2> QED
    BY <1>2, <2>1, <2>2 DEF IInv, TypeOK, thread
<1>8. OneShot'
  BY <1>2, <1>3, <1>6 DEF IInv, OneShot, thread, TypeOK
<1>9. GrantFitsCall'
  BY <1>2, <1>3, <1>6 DEF IInv, GrantFitsCall, thread, TypeOK
<1>10. ReleasedIsSpent'
  BY <1>2, <1>3, <1>4, <1>6 DEF IInv, ReleasedIsSpent
<1>11. (HoldersForward /\ CallsTyped /\ VerdictJustified)'
  BY <1>2 DEF IInv, HoldersForward, CallsTyped, VerdictJustified, Authorized, thread
<1> QED
  BY <1>7, <1>8, <1>9, <1>10, <1>11 DEF IInv

\* Expiry touches neither the context of a grant nor its consumed mark.
LEMMA ExpiryStep ==
  ASSUME IInv, NEW g \in Grant, GrantExpires(g)
  PROVE  IInv'
<1> USE DEF GrantExpires, thread
<1>0. grants \in [Grant -> GrantRow]
  BY DEF IInv, TypeOK
<1>1. /\ grants' \in [Grant -> GrantRow]
      /\ \A h \in Grant : /\ grants'[h].context = grants[h].context
                          /\ grants'[h].consumed = grants[h].consumed
  BY <1>0 DEF GrantRow
<1>2. TypeOK'
  BY <1>1 DEF IInv, TypeOK
<1>3. (OneShot /\ ReleasedIsSpent)'
  BY <1>1 DEF IInv, OneShot, ReleasedIsSpent
<1>4. GrantFitsCall'
  BY <1>1 DEF IInv, GrantFitsCall, TypeOK
<1>5. (HoldersForward /\ CallsTyped /\ VerdictJustified)'
  BY DEF IInv, HoldersForward, CallsTyped, VerdictJustified, Authorized
<1> QED
  BY <1>2, <1>3, <1>4, <1>5 DEF IInv

\* After a restart no thread has a call or a grant.
LEMMA RestartStep ==
  ASSUME IInv, Restart
  PROVE  IInv'
<1> USE DEF Restart, store
<1>1. TypeOK'
  BY DEF IInv, TypeOK
<1>2. (OneShot /\ ReleasedIsSpent)'
  BY DEF IInv, OneShot, ReleasedIsSpent, Grant
<1>3. (GrantFitsCall /\ HoldersForward /\ CallsTyped /\ VerdictJustified)'
  BY DEF GrantFitsCall, HoldersForward, CallsTyped, VerdictJustified
<1> QED
  BY <1>1, <1>2, <1>3 DEF IInv

-----------------------------------------------------------------------------
(* The theorems                                                            *)

\* Every step of a handler thread keeps the invariant.
LEMMA ThreadStep ==
  ASSUME IInv, NEW w \in Worker, PermitStep(w)
  PROVE  IInv'
<1>0. CASE ReadClock(w)
  <2>1. req[w] # Discovery /\ human[w] /\ pc[w] # "forward"
    BY <1>0 DEF ReadClock, IInv, CallsTyped
  <2>2. PICK label \in {"check", "consume"} : Goto(w, label)
    BY <1>0 DEF ReadClock
  <2>3. asof' \in [Worker -> SUBSET Grant]
    BY <1>0 DEF ReadClock, IInv, TypeOK
  <2> QED
    BY <1>0, <2>1, <2>2, <2>3, MoveStep DEF ReadClock
<1>1. CASE CheckGrant(w)
  <2>1. req[w] # Discovery
    BY <1>1 DEF CheckGrant, IInv, CallsTyped
  <2>2. PICK label \in {"record", "mint"} : Goto(w, label)
    BY <1>1 DEF CheckGrant
  <2>3. asof' \in [Worker -> SUBSET Grant]
    BY <1>1 DEF CheckGrant, IInv, TypeOK
  <2> QED
    BY <1>1, <2>1, <2>2, <2>3, MoveStep DEF CheckGrant
<1>2. CASE record_execution_approval(w)
  <2>1. approvals' \in [Context -> ApprovalStatus]
    BY <1>2 DEF record_execution_approval, IInv, TypeOK, ApprovalStatus
  <2> QED
    BY <1>2, <2>1, AnswerStep DEF record_execution_approval
<1>3. CASE Mint(w)
  <2>1. CASE req[w] = Discovery
    <3>1. Goto(w, "forward") /\ ~human[w]
      BY <1>3, <2>1 DEF Mint, IInv, CallsTyped
    <3> QED
      BY <1>3, <3>1, MoveStep DEF Mint, IInv, TypeOK
  <2>2. CASE req[w] # Discovery
    BY <1>3, <2>2, MoveStep DEF Mint, IInv, TypeOK
  <2> QED
    BY <2>1, <2>2
<1>4. CASE MintFails(w) \/ GrantGone(w)
  <2>1. approvals' \in [Context -> ApprovalStatus]
    BY <1>4 DEF MintFails, GrantGone, store, IInv, TypeOK
  <2> QED
    BY <1>4, <2>1, AnswerStep DEF MintFails, GrantGone, store
<1>5. CASE consume_execution_grant(w)
  BY <1>5, ConsumeStep
<1>6. CASE record_auto_execution(w)
  BY <1>6, MoveStep DEF record_auto_execution, IInv, TypeOK
<1>7. CASE Forward(w)
  BY <1>7, ForwardStep
<1> QED
  BY <1>0, <1>1, <1>2, <1>3, <1>4, <1>5, <1>6, <1>7 DEF PermitStep

\* Every request of an operator keeps the invariant.
LEMMA AdminStepKeeps ==
  ASSUME IInv, AdminStep
  PROVE  IInv'
<1>1. CASE \E enabled \in BOOLEAN \ {stop} : set_emergency_stop(enabled)
  BY <1>1, OperatorStep DEF set_emergency_stop, IInv, TypeOK
<1>2. CASE \E t \in Tools : add_tool_exception(t)
  <2>1. PICK t \in Tools : add_tool_exception(t)
    BY <1>2
  <2>2. approvals' \in [Context -> ApprovalStatus]
    BY <2>1, DecideType DEF add_tool_exception, IInv, ApprovalStatus
  <2> QED
    BY <2>1, <2>2, OperatorStep DEF add_tool_exception, IInv, TypeOK
<1>3. CASE \E p \in Capabilities, level \in Levels : set_capability_override(p, level)
  <2>1. PICK p \in Capabilities, level \in Levels : set_capability_override(p, level)
    BY <1>3
  <2>2. approvals' \in [Context -> ApprovalStatus]
    BY <2>1, DecideType DEF set_capability_override, IInv, ApprovalStatus
  <2>3. level \in 0..4
    BY GatewayAssumption
  <2>4. /\ overrides' \in Override
        /\ \A q \in Capabilities : overrides[q] # NoOverride => overrides'[q] # NoOverride
    BY <2>1, <2>3 DEF set_capability_override, IInv, TypeOK, Override, NoOverride
  <2> QED
    BY <2>1, <2>2, <2>4, OperatorStep DEF set_capability_override, IInv, TypeOK
<1>4. CASE \E c \in Context : grant_once(c)
  BY <1>4, GrantStep
<1> QED
  BY <1>1, <1>2, <1>3, <1>4 DEF AdminStep

\* The conjunction IInv is an invariant of the gateway, for any number of threads,
\* tools, scopes and grants.
THEOREM GatewayInvariance == Spec => []IInv
<1>1. Init => IInv
  BY InitInvariant
<1>2. IInv /\ [Next]_vars => IInv'
  <2> SUFFICES ASSUME IInv, [Next]_vars PROVE IInv'
    OBVIOUS
  <2>1. ASSUME NEW w \in Worker, PermitStep(w) PROVE IInv'
    BY <2>1, ThreadStep
  <2>2. ASSUME NEW w \in Worker, NEW c \in Context \cup {Discovery}, TakeSnapshot(w, c)
        PROVE  IInv'
    BY <2>2, SnapshotStep
  <2>3. CASE AdminStep
    BY <2>3, AdminStepKeeps
  <2>4. ASSUME NEW g \in Grant, GrantExpires(g) PROVE IInv'
    BY <2>4, ExpiryStep
  <2>5. CASE Restart
    BY <2>5, RestartStep
  <2>6. CASE UNCHANGED vars
    BY <2>6 DEF vars, store, thread, IInv, TypeOK, OneShot, GrantFitsCall, HoldersForward,
                ReleasedIsSpent, VerdictJustified, CallsTyped, Authorized
  <2> QED
    BY <2>1, <2>2, <2>3, <2>4, <2>5, <2>6 DEF Next
<1> QED
  BY <1>1, <1>2, PTL DEF Spec

\* A one-shot grant releases at most one upstream request however the threads race:
\* has_execution_grant and consume_execution_grant are two transactions, and only
\* the second decides.
THEOREM GrantsAreOneShot == Spec => []OneShot
<1>1. IInv => OneShot
  BY DEF IInv
<1> QED
  BY <1>1, GatewayInvariance, PTL

\* A grant is used for exactly the call it was given for.
THEOREM GrantsFitCalls == Spec => []GrantFitsCall
<1>1. IInv => GrantFitsCall
  BY DEF IInv
<1> QED
  BY <1>1, GatewayInvariance, PTL

\* permit's risk ceiling: without a grant, a call above it goes upstream only when an
\* operator has lifted it.
THEOREM CeilingIsKept == Spec => []CeilingHolds
<1>1. IInv => CeilingHolds
  <2> SUFFICES ASSUME IInv, NEW w \in Worker,
                      pc[w] = "forward", req[w] # Discovery, held[w] = 0
               PROVE  Authorized(req[w])
    BY DEF CeilingHolds, Authorized
  <2>1. ~human[w]
    BY DEF IInv, CallsTyped
  <2> QED
    BY <2>1 DEF IInv, VerdictJustified
<1> QED
  BY <1>1, GatewayInvariance, PTL

\* permit's comment "A token broker outage therefore does not spend the user's
\* approval": only the transaction of consume_execution_grant spends a grant, on its way
\* upstream, and one that had not expired when its thread read the clock.
THEOREM SpendingReleases == Spec => SpentOnlyOnRelease
<1> DEFINE Releases(g) ==
             \E w \in Worker : /\ pc[w] = "consume" /\ pc'[w] = "forward" /\ held'[w] = g
                               /\ g \notin asof[w]
           Spends == \A g \in Grant : grants'[g].consumed /\ ~grants[g].consumed => Releases(g)
<1>1. IInv /\ [Next]_vars => [Spends]_grants
  <2> SUFFICES ASSUME IInv, Next, NEW g \in Grant, grants'[g].consumed, ~grants[g].consumed
               PROVE  Releases(g)
    BY DEF vars, store
  <2>1. PICK w \in Worker : consume_execution_grant(w)
    <3>1. ASSUME UNCHANGED grants PROVE FALSE
      BY <3>1
    <3>2. ASSUME NEW h \in Grant, GrantExpires(h) PROVE FALSE
      BY <3>2 DEF GrantExpires, IInv, TypeOK, GrantRow
    <3>3. ASSUME NEW c \in Context, grant_once(c) PROVE FALSE
      BY <3>3 DEF grant_once, IInv, TypeOK, GrantRow
    <3>4. ASSUME NEW w \in Worker, PermitStep(w), ~consume_execution_grant(w) PROVE FALSE
      BY <3>1, <3>4 DEF PermitStep, ReadClock, CheckGrant, record_execution_approval, Mint, MintFails,
                        GrantGone, record_auto_execution, Forward, store
    <3>5. ASSUME NEW w \in Worker, NEW c, TakeSnapshot(w, c) PROVE FALSE
      BY <3>1, <3>5 DEF TakeSnapshot, store
    <3>6. ASSUME AdminStep PROVE FALSE
      BY <3>1, <3>3, <3>6 DEF AdminStep, set_emergency_stop, add_tool_exception,
                              set_capability_override
    <3>7. ASSUME Restart PROVE FALSE
      BY <3>1, <3>7 DEF Restart, store
    <3> QED
      BY <3>2, <3>4, <3>5, <3>6, <3>7 DEF Next
  <2>2. PICK h \in matching_grants(req[w], asof[w]) :
          /\ grants' = [grants EXCEPT ![h].consumed = TRUE]
          /\ held' = [held EXCEPT ![w] = h]
    BY <2>1 DEF consume_execution_grant
  <2>3. h \in Grant /\ h \notin asof[w]
    BY DEF matching_grants
  <2>4. h = g
    BY <2>2, <2>3 DEF IInv, TypeOK, GrantRow
  <2>5. pc[w] = "consume" /\ pc'[w] = "forward" /\ held'[w] = g
    BY <2>1, <2>2, <2>4 DEF consume_execution_grant, Goto, IInv, TypeOK
  <2> QED
    BY <2>3, <2>4, <2>5
<1> QED
  BY <1>1, GatewayInvariance, PTL DEF Spec, SpentOnlyOnRelease
=============================================================================
