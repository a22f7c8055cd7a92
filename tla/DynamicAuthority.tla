-------------------------- MODULE DynamicAuthority --------------------------
(***************************************************************************)
(* The capability gateway in dynamic mode: DynamicAuthorityProxy.permit    *)
(* and forward (mcp_proxy.py), run by concurrent handler threads of one    *)
(* ThreadingHTTPServer, over the shared GovernanceStore (governance.py).   *)
(*                                                                         *)
(* Every method of the store holds its lock for one SQLite transaction and *)
(* is one atomic step here; permit calls several of them, and operators    *)
(* and other threads get in between.  The two methods that look for a      *)
(* grant read the clock before they wait for the lock: that is a step of   *)
(* its own (ReadClock).  A call that builder_invocation_                   *)
(* context, the authentication or an active stop refuses changes no state  *)
(* and is left out.  The resolver's tables, pending_approvals and          *)
(* allow_once, are disjoint from the ones here, and the updates of         *)
(* pending_approvals and allow_once in the same methods are not modelled.  *)
(***************************************************************************)
EXTENDS Integers

CONSTANTS
  Worker,     \* handler threads
  Tools,      \* the tools of BUILDER_ACTIONS the instance calls
  Scope,      \* run, repository, branch and args_hash of a call
  MaxAuto,    \* max_auto_category
  Levels,     \* bound: the categories operators set overrides to
  MaxGrants   \* bound: rows of execution_grants with authority_source HUMAN

\* RiskCategory
LOW == 1
MEDIUM == 2
HIGH == 3

BuilderTools ==
  {"get_file_contents", "get_repository_tree", "search_code", "create_branch",
   "push_files", "create_pull_request", "actions_run_trigger", "actions_get",
   "actions_list", "get_job_logs"}

\* BUILDER_ACTIONS: the capability and the category of each tool.
capability(tool) ==
  CASE tool = "get_file_contents"   -> "repository.file.read"
    [] tool = "get_repository_tree" -> "repository.tree.read"
    [] tool = "search_code"         -> "repository.code.search"
    [] tool = "create_branch"       -> "repository.branch.create"
    [] tool = "push_files"          -> "repository.files.modify"
    [] tool = "create_pull_request" -> "repository.pull_request.create"
    [] tool = "actions_run_trigger" -> "ci.workflow.trigger"
    [] tool \in {"actions_get", "actions_list"} -> "ci.workflow.read"
    [] tool = "get_job_logs"        -> "ci.logs.read"

category(tool) ==
  CASE tool = "actions_run_trigger" -> HIGH
    [] tool \in {"create_branch", "push_files", "create_pull_request"} -> MEDIUM
    [] OTHER -> LOW

ASSUME GatewayAssumption ==
  /\ Tools \subseteq BuilderTools
  /\ MaxAuto \in 0..4 /\ Levels \subseteq 0..4 /\ MaxGrants \in Nat

Capabilities == {capability(t) : t \in Tools}
Context == Tools \X Scope      \* InvocationContext; request_id hashes all of it
Grant == 1..MaxGrants          \* execution_grants rows, in the order of created_at
Discovery == <<>>              \* initialize, tools/list and the other methods
NoOverride == 5

VARIABLES
  stop,        \* global_state.emergency_stop
  exceptions,  \* tool_exceptions
  overrides,   \* capability_overrides
  approvals,   \* pending_execution_approvals: the status of each request
  grants,      \* execution_grants made by grant_once
  pc,          \* where each thread is
  req,         \* the call it serves
  human,       \* requires_human, computed from its GovernanceSnapshot
  asof,        \* now, as what it decides: the grants that had expired by then
  held,        \* ExecutionPermit.grant_id of a HUMAN permit, 0 for the others
  released     \* history: upstream requests released on each grant

store == <<stop, exceptions, overrides, approvals, grants>>
thread == <<pc, req, human, asof, held>>
vars == <<store, thread, released>>

Override == [Capabilities -> 0..NoOverride]
GrantRow == [context: Context \cup {Discovery}, consumed: BOOLEAN, expired: BOOLEAN]
ApprovalStatus == {"NONE", "PENDING", "APPROVED_ONCE", "EXCEPTION", "CAPABILITY_OVERRIDE"}

TypeOK ==
  /\ stop \in BOOLEAN /\ exceptions \in SUBSET Tools /\ overrides \in Override
  /\ approvals \in [Context -> ApprovalStatus] /\ grants \in [Grant -> GrantRow]
  /\ pc \in [Worker -> {"idle", "authorize", "check", "record", "mint", "minted",
                        "consume", "forward"}]
  /\ req \in [Worker -> Context \cup {Discovery}]
  /\ human \in [Worker -> BOOLEAN] /\ asof \in [Worker -> SUBSET Grant]
  /\ held \in [Worker -> Grant \cup {0}]
  /\ released \in [Grant -> Nat]

-----------------------------------------------------------------------------
(* DynamicAuthorityProxy.permit, thread w                                  *)

Goto(w, label) == pc' = [pc EXCEPT ![w] = label]

\* The thread answers and forgets the call.
Answer(w) ==
  /\ Goto(w, "idle")
  /\ req' = [req EXCEPT ![w] = Discovery]
  /\ human' = [human EXCEPT ![w] = FALSE]
  /\ asof' = [asof EXCEPT ![w] = {}]
  /\ held' = [held EXCEPT ![w] = 0]

effective(tool) ==
  IF overrides[capability(tool)] = NoOverride THEN category(tool)
  ELSE overrides[capability(tool)]

\* Mutant: the ceiling is off by one.
requires_human_lax(c) ==
  c # Discovery /\ effective(c[1]) > MaxAuto + 1 /\ c[1] \notin exceptions

requires_human(c) ==
  c # Discovery /\ effective(c[1]) > MaxAuto /\ c[1] \notin exceptions

\* Mutant: the stop is not looked at.
SnapshotUnstopped(w, c) ==
  /\ pc[w] = "idle"
  /\ req' = [req EXCEPT ![w] = c]
  /\ human' = [human EXCEPT ![w] = requires_human(c)]
  /\ Goto(w, IF requires_human(c) THEN "authorize" ELSE "mint")
  /\ UNCHANGED <<store, asof, held, released>>

\* snapshot() and the emergency_stop test; what the snapshot says of the call is
\* used until the end of permit.  has_execution_grant is asked only when a human is
\* required.
TakeSnapshot(w, c) ==
  /\ pc[w] = "idle" /\ ~stop
  /\ req' = [req EXCEPT ![w] = c]
  /\ human' = [human EXCEPT ![w] = requires_human(c)]
  /\ Goto(w, IF requires_human(c) THEN "authorize" ELSE "mint")
  /\ UNCHANGED <<store, asof, held, released>>

\* has_execution_grant and consume_execution_grant begin with the clock, and then wait
\* for the store's lock and, the latter, for BEGIN IMMEDIATE.
ReadClock(w) ==
  /\ human[w]
  /\ \/ pc[w] = "authorize" /\ Goto(w, "check")
     \/ pc[w] = "minted" /\ Goto(w, "consume")
  /\ asof' = [asof EXCEPT ![w] = {g \in Grant : grants[g].expired}]
  /\ UNCHANGED <<store, req, human, held, released>>

\* Mutant: the arguments are not part of the match.
matching_any_arguments(c, past) ==
  {g \in Grant \ past : /\ grants[g].context # Discovery /\ grants[g].context[1] = c[1]
                        /\ ~grants[g].consumed}

\* The WHERE clause of has_execution_grant and consume_execution_grant; past holds the
\* grants that had expired at the time compared with.
matching_grants(c, past) ==
  {g \in Grant \ past : grants[g].context = c /\ ~grants[g].consumed}

\* Mutant: the grant is spent where it is looked up, before the token is minted.
CheckGrantSpending(w) ==
  /\ pc[w] = "check"
  /\ \/ /\ matching_grants(req[w], asof[w]) = {}
        /\ Goto(w, "record")
        /\ UNCHANGED grants
     \/ /\ \E g \in matching_grants(req[w], asof[w]) :
             grants' = [grants EXCEPT ![g].consumed = TRUE]
        /\ Goto(w, "mint")
  /\ asof' = [asof EXCEPT ![w] = {}]
  /\ UNCHANGED <<stop, exceptions, overrides, approvals, req, human, held, released>>

\* has_execution_grant.
CheckGrant(w) ==
  /\ pc[w] = "check"
  /\ Goto(w, IF matching_grants(req[w], asof[w]) = {} THEN "record" ELSE "mint")
  /\ asof' = [asof EXCEPT ![w] = {}]
  /\ UNCHANGED <<store, req, human, held, released>>

\* record_execution_approval (an upsert that sets PENDING again) and the
\* approval_required answer.
record_execution_approval(w) ==
  /\ pc[w] = "record"
  /\ approvals' = [approvals EXCEPT ![req[w]] = "PENDING"]
  /\ Answer(w)
  /\ UNCHANGED <<stop, exceptions, overrides, grants, released>>

\* token_broker.mint: a token, cached or new, or GitHubAppUnavailable.
Mint(w) ==
  /\ pc[w] = "mint"
  /\ Goto(w, IF req[w] = Discovery THEN "forward" ELSE "minted")
  /\ UNCHANGED <<store, req, human, asof, held, released>>

MintFails(w) ==
  /\ pc[w] = "mint"
  /\ Answer(w)
  /\ UNCHANGED <<store, released>>

\* Mutant: the row is not marked consumed.
consume_unmarked(w) ==
  /\ pc[w] = "consume"
  /\ \E g \in matching_grants(req[w], asof[w]) : held' = [held EXCEPT ![w] = g]
  /\ Goto(w, "forward")
  /\ asof' = [asof EXCEPT ![w] = {}]
  /\ UNCHANGED <<store, req, human, released>>

\* The transaction of consume_execution_grant: the oldest matching row.
consume_execution_grant(w) ==
  LET rows == matching_grants(req[w], asof[w])
  IN /\ pc[w] = "consume"
     /\ \E g \in rows :
          /\ \A h \in rows : g <= h
          /\ grants' = [grants EXCEPT ![g].consumed = TRUE]
          /\ held' = [held EXCEPT ![w] = g]
     /\ Goto(w, "forward")
     /\ asof' = [asof EXCEPT ![w] = {}]
     /\ UNCHANGED <<stop, exceptions, overrides, approvals, req, human, released>>

\* Another thread spent it, or it had expired: approval_already_consumed.
GrantGone(w) ==
  /\ pc[w] = "consume" /\ matching_grants(req[w], asof[w]) = {}
  /\ Answer(w)
  /\ UNCHANGED <<store, released>>

\* record_auto_execution inserts a row that is consumed from the start and so never
\* matches; it is not kept in grants.
record_auto_execution(w) ==
  /\ pc[w] = "minted" /\ ~human[w]
  /\ Goto(w, "forward")
  /\ UNCHANGED <<store, req, human, asof, held, released>>

\* forward: the request goes upstream, whatever becomes of it there; the relaying of
\* the answer is not modelled.
Forward(w) ==
  /\ pc[w] = "forward"
  /\ released' = [g \in Grant |-> IF g = held[w] THEN released[g] + 1 ELSE released[g]]
  /\ Answer(w)
  /\ UNCHANGED store

PermitStep(w) ==
  \/ ReadClock(w) \/ CheckGrant(w) \/ record_execution_approval(w)
  \/ Mint(w) \/ MintFails(w)
  \/ consume_execution_grant(w) \/ GrantGone(w) \/ record_auto_execution(w)
  \/ Forward(w)

-----------------------------------------------------------------------------
(* The operators' requests, the clock, a restart                           *)

set_emergency_stop(enabled) ==
  /\ stop' = enabled
  /\ UNCHANGED <<exceptions, overrides, approvals, grants, thread, released>>

Decide(pending, status) ==
  approvals' = [c \in Context |-> IF c \in pending /\ approvals[c] = "PENDING"
                                  THEN status ELSE approvals[c]]

add_tool_exception(t) ==
  /\ exceptions' = exceptions \cup {t}
  /\ Decide({c \in Context : c[1] = t}, "EXCEPTION")
  /\ UNCHANGED <<stop, overrides, grants, thread, released>>

set_capability_override(p, level) ==
  LET tools == {t \in Tools : capability(t) = p}
  IN /\ overrides' = [overrides EXCEPT ![p] = level]
     /\ Decide({c \in Context : c[1] \in tools}, "CAPABILITY_OVERRIDE")
     /\ UNCHANGED <<stop, exceptions, grants, thread, released>>

\* "Allow once": a PENDING request becomes a grant for exactly its context.
grant_once(c) ==
  /\ approvals[c] = "PENDING"
  /\ \E g \in Grant :
       /\ grants[g].context = Discovery /\ \A h \in Grant : h < g => grants[h].context # Discovery
       /\ grants' = [grants EXCEPT ![g] = [context |-> c, consumed |-> FALSE, expired |-> FALSE]]
  /\ approvals' = [approvals EXCEPT ![c] = "APPROVED_ONCE"]
  /\ UNCHANGED <<stop, exceptions, overrides, thread, released>>

\* expires_at passes.
GrantExpires(g) ==
  /\ grants[g].context # Discovery /\ ~grants[g].expired
  /\ grants' = [grants EXCEPT ![g].expired = TRUE]
  /\ UNCHANGED <<stop, exceptions, overrides, approvals, thread, released>>

\* The gateway restarts: the calls in flight are lost, the database stays.
Restart ==
  /\ \E w \in Worker : pc[w] # "idle"
  /\ pc' = [w \in Worker |-> "idle"] /\ req' = [w \in Worker |-> Discovery]
  /\ human' = [w \in Worker |-> FALSE] /\ asof' = [w \in Worker |-> {}]
  /\ held' = [w \in Worker |-> 0]
  /\ UNCHANGED <<store, released>>

-----------------------------------------------------------------------------
Init ==
  /\ stop = FALSE /\ exceptions = {} /\ overrides = [c \in Capabilities |-> NoOverride]
  /\ approvals = [c \in Context |-> "NONE"]
  /\ grants = [g \in Grant |-> [context |-> Discovery, consumed |-> FALSE, expired |-> FALSE]]
  /\ pc = [w \in Worker |-> "idle"] /\ req = [w \in Worker |-> Discovery]
  /\ human = [w \in Worker |-> FALSE] /\ asof = [w \in Worker |-> {}]
  /\ held = [w \in Worker |-> 0]
  /\ released = [g \in Grant |-> 0]

AdminStep ==
  \/ \E enabled \in BOOLEAN \ {stop} : set_emergency_stop(enabled)
  \/ \E t \in Tools : add_tool_exception(t)
  \/ \E p \in Capabilities, level \in Levels : set_capability_override(p, level)
  \/ \E c \in Context : grant_once(c)

Next ==
  \/ \E w \in Worker : PermitStep(w) \/ \E c \in Context \cup {Discovery} : TakeSnapshot(w, c)
  \/ AdminStep
  \/ \E g \in Grant : GrantExpires(g)
  \/ Restart

Spec == Init /\ [][Next]_vars

\* A thread goes on by itself: the token request and the upstream request have
\* timeouts, the store's lock is held for one transaction at a time.
Fairness == \A w \in Worker : WF_vars(PermitStep(w))

FairSpec == Spec /\ Fairness

-----------------------------------------------------------------------------
(* Properties                                                              *)

\* README of the gateway: "A one-shot grant cannot be reused": however threads race
\* between has_execution_grant and consume_execution_grant, at most one upstream
\* request is released on a grant, and a grant in use is already marked consumed.
OneShot ==
  \A g \in Grant :
    /\ released[g] <= 1
    /\ \A w \in Worker : held[w] = g => /\ released[g] = 0 /\ grants[g].consumed
                                        /\ \A v \in Worker : held[v] = g => v = w

\* "... and cannot authorize changed arguments": a thread holds a grant for exactly
\* its own call.
GrantFitsCall == \A w \in Worker : held[w] # 0 => grants[held[w]].context = req[w]

\* A call above the ceiling goes upstream without a human grant only if an operator
\* has made an exception for its tool or an override for its capability (neither is
\* ever deleted: nothing calls remove_tool_exception and remove_capability_override).
CeilingHolds ==
  \A w \in Worker : pc[w] = "forward" /\ req[w] # Discovery /\ held[w] = 0 =>
    \/ category(req[w][1]) <= MaxAuto
    \/ req[w][1] \in exceptions \/ overrides[capability(req[w][1])] # NoOverride

\* mcp_proxy.py: "A token broker outage therefore does not spend the user's approval":
\* a grant is spent only in the step that lets its request go upstream.  What the
\* expiry is worth: the grant had not expired when that thread looked at the clock,
\* after its token was minted (it may have expired in the wait for the lock since).
SpentOnlyOnRelease ==
  [][\A g \in Grant : grants'[g].consumed /\ ~grants[g].consumed =>
       \E w \in Worker : /\ pc[w] = "consume" /\ pc'[w] = "forward" /\ held'[w] = g
                         /\ g \notin asof[w]]_grants

\* Once an operator's stop stays on, the calls in flight drain and nothing more goes
\* upstream.
StopDrains == (<>[]stop) => <>[](\A w \in Worker : pc[w] = "idle")
=============================================================================
