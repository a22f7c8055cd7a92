-------------------------- MODULE IntentActionGate --------------------------
(***************************************************************************)
(* The Hermes plugin hermeteam-intent-action-gate (__init__.py): the calls *)
(* a model proposes are remembered for its session, and each tool call     *)
(* Hermes is about to make is compared with them.                          *)
(*                                                                         *)
(* The hooks of concurrent runs share PROPOSALS under STATE_LOCK: one      *)
(* append and one copy are atomic, the loop over a response's calls is     *)
(* not.  Runs without a session_id share the session "".  A hash is the    *)
(* value it is taken of, and the text classify_action searches is one of a *)
(* few kinds of tool and of arguments.                                     *)
(***************************************************************************)
EXTENDS Integers, SequencesExt

CONSTANTS
  Run,          \* Hermes runs
  Sessionless,  \* the ones whose hooks get no session_id
  Ids,          \* tool call ids the provider gives
  Tools,        \* tool names
  Args,         \* arguments that are a JSON object
  Malformed,    \* and other ones a model sends, which a proposal keeps a stand-in of
  Mode,         \* HERMETEAM_GATE_MODE
  BlockLevel,   \* HERMETEAM_GATE_BLOCK_LEVEL
  MaxLen,       \* the deque's maxlen, 64
  MaxCalls,     \* bound: calls in a response
  MaxProposals  \* bound: proposals of all sessions together

LOW == 0
MEDIUM == 1
HIGH == 2
CRITICAL == 3

\* What the plugin's word lists and patterns find in a tool name or in arguments.
Reads == {"get_file_contents", "list_releases"}
Privileged == {"merge_pull_request", "update_permission"}
Irreversible == {"merge_pull_request", "list_releases"}
Protected == {"workflow_path"}
Production == {"main_branch"}

ASSUME GateAssumption ==
  /\ Sessionless \subseteq Run /\ Malformed \subseteq {"unparsable", "absent"}
  /\ Mode \in {"record", "shadow", "enforce"} /\ BlockLevel \in LOW..CRITICAL
  /\ {MaxLen, MaxCalls, MaxProposals} \subseteq Nat \ {0}

session_id(r) == IF r \in Sessionless THEN "" ELSE r
Session == {session_id(r) : r \in Run}

NoId == ""
Call == [id: Ids \cup {NoId}, name: Tools, args: Args]
Requested == [id: Ids \cup {NoId}, name: Tools, args: Args \cup Malformed]
Proposal == [id: Ids \cup {NoId}, name: Tools, args: Args \cup {"raw_arguments_hash", "value"}]

VARIABLES
  proposals,  \* PROPOSALS
  todo,       \* the calls of its last response a run has yet to remember
  event,      \* the last event emitted
  log         \* history: every proposal of a session, the oldest first

vars == <<proposals, todo, event, log>>

Event ==
  [type: {"none", "llm.request", "llm.response", "intent.proposed_action", "action.completed"}]
  \cup [type: {"action.requested"}, session: Session, call: Call, mismatch: BOOLEAN,
        risk: LOW..CRITICAL, decision: {"DENY", "ALLOW", "ALLOW_SHADOW"}]

TypeOK ==
  /\ \A s \in Session : /\ proposals[s] \in Seq(Proposal) /\ Len(proposals[s]) <= MaxLen
                        /\ log[s] \in Seq(Proposal)
  /\ \A r \in Run : todo[r] \in Seq(Proposal)
  /\ event \in Event

-----------------------------------------------------------------------------
(* Pure helpers                                                            *)

AtLeast(risk, floor) == IF risk < floor THEN floor ELSE risk

\* A name that begins with a READ_PREFIX is a read, whatever words follow; a write and
\* a tool of unknown semantics are both medium.
classify_action(name, args) ==
  LET base   == IF name \in Reads THEN LOW ELSE IF name \in Privileged THEN CRITICAL ELSE MEDIUM
      target == IF args \in Protected \/ (args \in Production /\ name \notin Reads)
                THEN AtLeast(base, HIGH) ELSE base
  IN IF name = "" THEN HIGH ELSE IF name \in Irreversible THEN CRITICAL ELSE target

normalize_tool_call(c) ==
  [c EXCEPT !.args = CASE @ = "unparsable" -> "raw_arguments_hash"
                       [] @ = "absent" -> "value"
                       [] OTHER -> @]

\* The response's calls without repetitions, each where it occurs first.
extract_tool_calls(response) ==
  FoldLeft(LAMBDA found, c : IF \E i \in DOMAIN found : found[i] = c THEN found ELSE Append(found, c),
           <<>>, [i \in DOMAIN response |-> normalize_tool_call(response[i])])

\* Mutant: the proposals are searched from the oldest on.
match_oldest(known, c) ==
  LET ById   == {i \in DOMAIN known : c.id # NoId /\ known[i].id = c.id}
      Same   == {i \in DOMAIN known : known[i].name = c.name /\ known[i].args = c.args}
      ByName == {i \in DOMAIN known : known[i].name = c.name}
      found  == IF ById # {} THEN ById ELSE IF Same # {} THEN Same ELSE ByName
  IN IF found = {} THEN <<>> ELSE <<known[Min(found)]>>

\* The latest proposal with the call's id; failing that, with its name and arguments;
\* failing that, with its name.  <<>> stands for None.
match_proposal(known, c) ==
  LET ById   == {i \in DOMAIN known : c.id # NoId /\ known[i].id = c.id}
      Same   == {i \in DOMAIN known : known[i].name = c.name /\ known[i].args = c.args}
      ByName == {i \in DOMAIN known : known[i].name = c.name}
      found  == IF ById # {} THEN ById ELSE IF Same # {} THEN Same ELSE ByName
  IN IF found = {} THEN <<>> ELSE <<known[Max(found)]>>

\* Mutant: a proposal of the same tool is enough.
mismatch_none(proposal, c) == proposal = <<>>

mismatch(proposal, c) == proposal = <<>> \/ proposal[1].args # c.args

-----------------------------------------------------------------------------
(* The hooks, run r                                                        *)

Emit(type) == event' = [type |-> type]

on_pre_api_request(r) ==
  /\ todo[r] = <<>>
  /\ Emit("llm.request")
  /\ UNCHANGED <<proposals, todo, log>>

\* on_post_api_request up to its loop.
on_post_api_request(r, response) ==
  /\ todo[r] = <<>>
  /\ Emit("llm.response")
  /\ todo' = [todo EXCEPT ![r] = extract_tool_calls(response)]
  /\ UNCHANGED <<proposals, log>>

\* One turn of the loop: remember, where the deque forgets its oldest proposal once it
\* holds MaxLen, and the event.
remember(r) ==
  LET s == session_id(r)
      all == Append(proposals[s], Head(todo[r]))
  IN /\ todo[r] # <<>>
     /\ proposals' = [proposals EXCEPT ![s] =
          IF Len(all) > MaxLen THEN Tail(all) ELSE all]
     /\ log' = [log EXCEPT ![s] = Append(@, Head(todo[r]))]
     /\ todo' = [todo EXCEPT ![r] = Tail(@)]
     /\ Emit("intent.proposed_action")

\* The proposals are copied under the lock; the rest of the hook reads nothing shared.
on_pre_tool_call(r, c) ==
  LET differs == mismatch(match_proposal(proposals[session_id(r)], c), c)
      risk    == AtLeast(classify_action(c.name, c.args), IF differs THEN HIGH ELSE LOW)
      blocked == Mode = "enforce" /\ risk >= BlockLevel
  IN /\ todo[r] = <<>>
     /\ event' = [type |-> "action.requested", session |-> session_id(r), call |-> c,
                  mismatch |-> differs, risk |-> risk,
                  decision |-> IF blocked THEN "DENY"
                               ELSE IF Mode = "enforce" THEN "ALLOW" ELSE "ALLOW_SHADOW"]
     /\ UNCHANGED <<proposals, todo, log>>

on_post_tool_call(r) ==
  /\ todo[r] = <<>>
  /\ Emit("action.completed")
  /\ UNCHANGED <<proposals, todo, log>>

-----------------------------------------------------------------------------
Init ==
  /\ proposals = [s \in Session |-> <<>>] /\ log = [s \in Session |-> <<>>]
  /\ todo = [r \in Run |-> <<>>] /\ event = [type |-> "none"]

Known == FoldSet(LAMBDA s, n : n + Len(log[s]), 0, Session)
Coming == FoldSet(LAMBDA r, n : n + Len(todo[r]), 0, Run)

Next ==
  \E r \in Run :
    \/ on_pre_api_request(r)
    \/ \E n \in 1..Min({MaxCalls, MaxProposals - Known - Coming}) :
         \E response \in [1..n -> Requested] : on_post_api_request(r, response)
    \/ remember(r)
    \/ \E c \in Call : on_pre_tool_call(r, c)
    \/ on_post_tool_call(r)

Spec == Init /\ [][Next]_vars

-----------------------------------------------------------------------------
(* Properties                                                              *)

Recent(s) == {i \in DOMAIN log[s] : i > Len(log[s]) - MaxLen}

\* A call Hermes makes as the model proposed it is not taken for a changed one, while
\* its proposal is among the session's last MaxLen and no later one has taken its id:
\* neither another session nor another run's half remembered response disturbs it.
ProposedPasses ==
  event.type = "action.requested" =>
    LET s == event.session
        c == event.call
    IN (\E i \in Recent(s) :
          /\ log[s][i].name = c.name /\ log[s][i].args = c.args
          /\ c.id # NoId => /\ log[s][i].id = c.id
                            /\ \A j \in Recent(s) : j > i => log[s][j].id # c.id)
       => ~event.mismatch

\* The recent proposals that have the id of call c.
OfId(s, c) == {i \in Recent(s) : c.id # NoId /\ log[s][i].id = c.id}

\* INTENT_ACTION_GATE_MVP.md: "... or changed arguments, is raised to at least high
\* risk": a call of lower risk has the arguments of the latest of its own session's
\* last MaxLen proposals that has its id; if none has, one of them has its name and its
\* arguments.  What another run has proposed since, or under another id, does not count.
ChangedArgumentsRaised ==
  event.type = "action.requested" /\ event.risk < HIGH =>
    LET s == event.session
        c == event.call
    IN IF OfId(s, c) # {}
       THEN \E i \in OfId(s, c) : log[s][i].args = c.args /\ \A j \in OfId(s, c) : j <= i
       ELSE \E i \in Recent(s) : log[s][i].name = c.name /\ log[s][i].args = c.args

\* The same document: "The plugin compares the actual tool name and argument hash with
\* the last model proposal.  A mutation with no matching proposal ... is raised to at
\* least high risk": a call that is no read and has lower risk is the same tool with the
\* same arguments as a recent proposal of its session.
MutationWasProposed ==
  event.type = "action.requested" /\ event.risk < HIGH /\ event.call.name \notin Reads =>
    \E i \in Recent(event.session) :
      /\ log[event.session][i].name = event.call.name
      /\ log[event.session][i].args = event.call.args

-----------------------------------------------------------------------------
(* The inductive invariant behind the first two                            *)

\* A session's deque is a window on its proposals: all of them, or the last MaxLen.
Sequence(q) == Len(q) \in Nat /\ q = [i \in 1..Len(q) |-> q[i]]
Window(p, all) ==
  /\ Sequence(p) /\ Sequence(all)
  /\ Len(p) <= Len(all) /\ Len(p) <= MaxLen
  /\ Len(p) < MaxLen => Len(p) = Len(all)
  /\ \A i \in 1..Len(p) : p[i] = all[Len(all) - Len(p) + i]

GInv ==
  /\ proposals = [s \in Session |-> proposals[s]] /\ log = [s \in Session |-> log[s]]
  /\ \A s \in Session : Window(proposals[s], log[s])
=============================================================================
