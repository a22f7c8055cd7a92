------------------------------ MODULE Resolver ------------------------------
(***************************************************************************)
(* CapabilityGateway.resolve_intent (service.py), run by concurrent        *)
(* handler threads, over the governance store's stop, exceptions,          *)
(* overrides, pending_approvals and allow_once (governance.py).            *)
(*                                                                         *)
(* Every store method is one transaction under the store's lock and one    *)
(* step here.  The judge is a language model: each request gets a fresh    *)
(* judgement of each tool, which the previous one does not bind.           *)
(***************************************************************************)
EXTENDS Resolution

CONSTANTS
  Worker,      \* handler threads
  Tool,        \* tool_ids, numbers above 0
  Intent,
  Capability,  \* canonical_capability
  ToolLists,   \* what requests bring or discover_tools finds
  Hints,       \* the annotations of each tool
  Judgements,  \* what classify may answer
  MaxTools,    \* MAX_TOOLS
  MaxAuto,     \* max_auto_category
  Levels,      \* bound: the categories operators set overrides to
  MaxGrants    \* bound: allow-once decisions for one request

ASSUME ResolverAssumption ==
  /\ Tool \subseteq Nat \ {0} /\ ToolLists \subseteq Seq(Tool)
  /\ Hints \in [Tool -> SUBSET Hint]
  /\ Judgements \subseteq [capability: Capability, flags: SUBSET Flag, fit: Fit]
  /\ MaxTools \in Nat \ {0} /\ MaxAuto \in 0..4 /\ Levels \subseteq 0..4 /\ MaxGrants \in Nat

Request == Intent \X Tool      \* request_id hashes the intent and the tool_id

VARIABLES
  stop,        \* global_state.emergency_stop
  exceptions,  \* tool_exceptions
  overrides,   \* capability_overrides
  pending,     \* pending_approvals: status and capability of each request
  allow_once,  \* allow_once: no row, a row with consumed = 0, or with 1
  pc,          \* where each thread is
  req,         \* intent, requested_tool_id (or None) and tools of its request
  ranked,      \* the judged candidates
  snapshot,    \* the exceptions and overrides it read
  answer,      \* what it answers
  granted,     \* history: allow-once decisions for each request
  released,    \* history: selections each request got by allow-once
  watched      \* history: the stop was on ever since the request came in

store == <<stop, exceptions, overrides, pending, allow_once>>
thread == <<pc, req, ranked, snapshot, answer>>
history == <<granted, released, watched>>
vars == <<store, thread, history>>

NoRequest == [intent |-> None, tool |-> None, tools |-> <<>>]
NoSnapshot == [exceptions |-> {}, overrides |-> [c \in Capability |-> NoOverride]]
Reply(status, r, once) ==
  [status |-> status, visible |-> r.visible, selected |-> r.selected, once |-> once]
Empty == [visible |-> {}, selected |-> None]
NoAnswer == Reply("none", Empty, FALSE)

Row == [status: {"NONE", "PENDING", "APPROVED_ONCE", "EXCEPTION", "CAPABILITY_OVERRIDE"},
        capability: Capability \cup {None}]
Status == {"none", "no_tools", "judge_unavailable", "emergency_stop", "resolved",
           "approval_required", "one_shot_grant_already_consumed"}

TypeOK ==
  /\ stop \in BOOLEAN /\ exceptions \in SUBSET Tool
  /\ overrides \in [Capability -> 0..NoOverride]
  /\ pending \in [Request -> Row]
  /\ allow_once \in [Request -> {"none", "unconsumed", "consumed"}]
  /\ pc \in [Worker -> {"idle", "judging", "judged", "asking", "consuming", "recording", "answered"}]
  /\ req \in [Worker -> [intent: Intent \cup {None}, tool: Tool \cup {None}, tools: Seq(Tool)]]
  /\ ranked \in [Worker -> Seq(Candidate(Tool, Capability))]
  /\ snapshot \in [Worker -> [exceptions: SUBSET Tool, overrides: [Capability -> 0..NoOverride]]]
  /\ answer \in [Worker -> [status: Status, visible: SUBSET Nat, selected: Nat, once: BOOLEAN]]
  /\ granted \in [Request -> Nat] /\ released \in [Request -> Nat]
  /\ watched \in [Worker -> BOOLEAN]

-----------------------------------------------------------------------------
(* resolve_intent, thread w                                                *)

Goto(w, label) == pc' = [pc EXCEPT ![w] = label]
Answer(w, a) == Goto(w, "answered") /\ answer' = [answer EXCEPT ![w] = a]

\* The requested tool's request_id.
Id(w) == <<req[w].intent, req[w].tool>>

\* A request with its tools, or with the ones discover_tools finds; at most
\* MAX_TOOLS are judged.
Receive(w, i, t, tools) ==
  /\ pc[w] = "idle"
  /\ IF tools = <<>> THEN Answer(w, Reply("no_tools", Empty, FALSE))
     ELSE Goto(w, "judging") /\ UNCHANGED answer
  /\ req' = [req EXCEPT ![w] =
       [intent |-> i, tool |-> t,
        tools |-> IF Len(tools) > MaxTools THEN SubSeq(tools, 1, MaxTools) ELSE tools]]
  /\ watched' = [watched EXCEPT ![w] = stop]
  /\ UNCHANGED <<store, ranked, snapshot, granted, released>>

\* classify and assess_risk of every tool; no store access in between.
Judge(w, j) ==
  /\ pc[w] = "judging"
  /\ ranked' = [ranked EXCEPT ![w] = [k \in 1..Len(req[w].tools) |->
       LET t == req[w].tools[k]
       IN [tool |-> t, capability |-> j[k].capability, flags |-> j[k].flags,
           score |-> assess_risk(j[k].flags, Hints[t]), fit |-> j[k].fit]]]
  /\ Goto(w, "judged")
  /\ UNCHANGED <<store, req, snapshot, answer, history>>

\* JudgeUnavailable, and CatalogUnavailable before it: 503, whatever the stop says.
JudgeUnavailable(w) ==
  /\ pc[w] = "judging"
  /\ Answer(w, Reply("judge_unavailable", Empty, FALSE))
  /\ UNCHANGED <<store, req, ranked, snapshot, history>>

\* resolve on what the thread holds.
Resolved(w, seen, once) ==
  resolve(ranked[w], req[w].tool, MaxAuto, once, seen.exceptions, seen.overrides)

\* Mutant: the stop is not looked at.
ResolveUnstopped(w) ==
  LET seen == [exceptions |-> exceptions, overrides |-> overrides]
      r == Resolved(w, seen, {})
  IN /\ pc[w] = "judged"
     /\ snapshot' = [snapshot EXCEPT ![w] = seen]
     /\ IF r.approval = None THEN Answer(w, Reply("resolved", r, FALSE))
        ELSE Goto(w, "asking") /\ UNCHANGED answer
     /\ UNCHANGED <<store, req, ranked, history>>

\* snapshot() and the first resolve.
Resolve(w) ==
  LET seen == [exceptions |-> exceptions, overrides |-> overrides]
      r == Resolved(w, seen, {})
  IN /\ pc[w] = "judged"
     /\ snapshot' = [snapshot EXCEPT ![w] = seen]
     /\ IF stop THEN Answer(w, Reply("emergency_stop", Empty, FALSE))
        ELSE IF r.approval = None THEN Answer(w, Reply("resolved", r, FALSE))
        ELSE Goto(w, "asking") /\ UNCHANGED answer
     /\ UNCHANGED <<store, req, ranked, history>>

\* has_unconsumed_once
CheckOnce(w) ==
  /\ pc[w] = "asking"
  /\ Goto(w, IF allow_once[Id(w)] = "unconsumed" THEN "consuming" ELSE "recording")
  /\ UNCHANGED <<store, req, ranked, snapshot, answer, history>>

\* Mutant: the UPDATE does not ask for consumed = 0.
consume_again(w) == allow_once[Id(w)] # "none"

\* consume_once: whether the UPDATE finds a row.
consume_once(w) == allow_once[Id(w)] = "unconsumed"

\* Mutant: the selection is answered although the grant was consumed meanwhile.
ConsumeUnchecked(w) ==
  /\ pc[w] = "consuming"
  /\ allow_once' = [allow_once EXCEPT ![Id(w)] = "consumed"]
  /\ released' = [released EXCEPT ![Id(w)] = IF consume_once(w) THEN @ + 1 ELSE @]
  /\ Answer(w, Reply("resolved", Resolved(w, snapshot[w], {req[w].tool}), consume_once(w)))
  /\ UNCHANGED <<stop, exceptions, overrides, pending, req, ranked, snapshot, granted, watched>>

\* The second resolve, with the allow-once, selects the requested tool; then the
\* grant is consumed.
Consume(w) ==
  /\ pc[w] = "consuming"
  /\ IF consume_once(w)
     THEN /\ allow_once' = [allow_once EXCEPT ![Id(w)] = "consumed"]
          /\ released' = [released EXCEPT ![Id(w)] = @ + 1]
          /\ Answer(w, Reply("resolved", Resolved(w, snapshot[w], {req[w].tool}), TRUE))
     ELSE /\ Answer(w, Reply("one_shot_grant_already_consumed", Empty, FALSE))
          /\ UNCHANGED <<allow_once, released>>
  /\ UNCHANGED <<stop, exceptions, overrides, pending, req, ranked, snapshot, granted, watched>>

\* record_pending_approval, which also reopens a decided request.
Record(w) ==
  LET r == Resolved(w, snapshot[w], {})
  IN /\ pc[w] = "recording"
     /\ pending' = [pending EXCEPT ![Id(w)] =
          [status |-> "PENDING", capability |-> ranked[w][r.approval].capability]]
     /\ Answer(w, Reply("approval_required", r, FALSE))
     /\ UNCHANGED <<stop, exceptions, overrides, allow_once, req, ranked, snapshot, history>>

\* The answer goes out and the thread forgets the request.
Send(w) ==
  /\ pc[w] = "answered"
  /\ Goto(w, "idle")
  /\ req' = [req EXCEPT ![w] = NoRequest] /\ ranked' = [ranked EXCEPT ![w] = <<>>]
  /\ snapshot' = [snapshot EXCEPT ![w] = NoSnapshot] /\ answer' = [answer EXCEPT ![w] = NoAnswer]
  /\ watched' = [watched EXCEPT ![w] = FALSE]
  /\ UNCHANGED <<store, granted, released>>

-----------------------------------------------------------------------------
(* Operators, through the admin endpoints                                  *)

set_emergency_stop(enabled) ==
  /\ stop' = enabled
  /\ watched' = [w \in Worker |-> watched[w] /\ enabled]
  /\ UNCHANGED <<exceptions, overrides, pending, allow_once, thread, granted, released>>

\* UPDATE pending_approvals SET status for the PENDING ones among p.
Decide(p, status) ==
  [i \in Request |-> IF i \in p /\ pending[i].status = "PENDING"
                     THEN [pending[i] EXCEPT !.status = status] ELSE pending[i]]

add_tool_exception(t) ==
  /\ exceptions' = exceptions \cup {t}
  /\ pending' = Decide({i \in Request : i[2] = t}, "EXCEPTION")
  /\ UNCHANGED <<stop, overrides, allow_once, thread, history>>

set_capability_override(c, level) ==
  /\ overrides' = [overrides EXCEPT ![c] = level]
  /\ pending' = Decide({i \in Request : pending[i].capability = c}, "CAPABILITY_OVERRIDE")
  /\ UNCHANGED <<stop, exceptions, allow_once, thread, history>>

\* grant_once of a resolver request: the row is written anew, unconsumed.
grant_once(i) ==
  /\ pending[i].status = "PENDING" /\ granted[i] < MaxGrants
  /\ pending' = Decide({i}, "APPROVED_ONCE")
  /\ allow_once' = [allow_once EXCEPT ![i] = "unconsumed"]
  /\ granted' = [granted EXCEPT ![i] = @ + 1]
  /\ UNCHANGED <<stop, exceptions, overrides, thread, released, watched>>

\* The process restarts: requests are lost, the store is on disk.
Restart ==
  /\ \E w \in Worker : pc[w] # "idle"
  /\ pc' = [w \in Worker |-> "idle"] /\ req' = [w \in Worker |-> NoRequest]
  /\ ranked' = [w \in Worker |-> <<>>] /\ snapshot' = [w \in Worker |-> NoSnapshot]
  /\ answer' = [w \in Worker |-> NoAnswer] /\ watched' = [w \in Worker |-> FALSE]
  /\ UNCHANGED <<store, granted, released>>

-----------------------------------------------------------------------------
Init ==
  /\ stop = FALSE /\ exceptions = {} /\ overrides = [c \in Capability |-> NoOverride]
  /\ pending = [i \in Request |-> [status |-> "NONE", capability |-> None]]
  /\ allow_once = [i \in Request |-> "none"]
  /\ pc = [w \in Worker |-> "idle"] /\ req = [w \in Worker |-> NoRequest]
  /\ ranked = [w \in Worker |-> <<>>] /\ snapshot = [w \in Worker |-> NoSnapshot]
  /\ answer = [w \in Worker |-> NoAnswer]
  /\ granted = [i \in Request |-> 0] /\ released = [i \in Request |-> 0]
  /\ watched = [w \in Worker |-> FALSE]

ThreadStep(w) ==
  \/ \E i \in Intent, t \in Tool \cup {None}, tools \in ToolLists : Receive(w, i, t, tools)
  \/ \E j \in [1..Len(req[w].tools) -> Judgements] : Judge(w, j)
  \/ JudgeUnavailable(w) \/ Resolve(w) \/ CheckOnce(w) \/ Consume(w) \/ Record(w) \/ Send(w)

AdminStep ==
  \/ \E enabled \in BOOLEAN : set_emergency_stop(enabled)
  \/ \E t \in Tool : add_tool_exception(t)
  \/ \E c \in Capability, level \in Levels : set_capability_override(c, level)
  \/ \E i \in Request : grant_once(i)

Next == (\E w \in Worker : ThreadStep(w)) \/ AdminStep \/ Restart
Spec == Init /\ [][Next]_vars

-----------------------------------------------------------------------------
(* Properties                                                              *)

\* Allow-once: however requests race between has_unconsumed_once and
\* consume_once, and however often a request is recorded and granted again, it
\* gets at most one selection for each time an operator allowed it once.
OneShot == \A i \in Request : released[i] <= granted[i]

\* Whether operators put a candidate's tool or capability, or this request, above
\* what its score allows.
Authorised(w, k) ==
  LET c == ranked[w][k]
  IN \/ category_for_score(c.score) <= MaxAuto
     \/ c.tool \in exceptions
     \/ overrides[c.capability] # NoOverride
     \/ answer[w].once /\ c.tool = req[w].tool

\* Nothing riskier than the ceiling reaches an agent, as a visible tool or as the
\* selection, without an operator's decision about that tool, that capability or
\* exactly that request; the decision is still in the store when the answer goes out.
OfferedIsAuthorised ==
  \A w \in Worker : \A k \in answer[w].visible \cup ({answer[w].selected} \ {None}) : Authorised(w, k)

\* README.md: "An agent must not receive a more powerful tool when a lower-risk
\* capability can satisfy the same intent."  A visible tool that another candidate
\* dominates is the one the agent asked for by name, under an operator's exception
\* or allow-once.
LeastPrivilege ==
  \A w \in Worker : \A k \in answer[w].visible :
    dominated(ranked[w], k) =>
      ranked[w][k].tool = req[w].tool /\ (answer[w].once \/ req[w].tool \in exceptions)

\* Removing dominated alternatives and filtering by risk together leave no agent
\* empty-handed: as long as operators overrode no capability, a request with some
\* candidate within the ceiling gets a visible tool, and one to use unless it is
\* waiting for a human.
SomethingUsable ==
  \A w \in Worker :
    /\ answer[w].status \in {"resolved", "approval_required"}
    /\ overrides = NoSnapshot.overrides
    /\ \E k \in DOMAIN ranked[w] : category_for_score(ranked[w][k].score) <= MaxAuto
    => /\ answer[w].visible # {}
       /\ answer[w].status = "resolved" => answer[w].selected # None

\* A request that came in while the emergency stop was on, and during which it
\* stayed on, gets no tool, whatever it asked for and was allowed before.
StopRefusesAll == \A w \in Worker : watched[w] => answer[w].visible = {} /\ answer[w].selected = None
=============================================================================
