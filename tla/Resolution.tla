----------------------------- MODULE Resolution -----------------------------
(***************************************************************************)
(* The pure part of the capability resolver (core.py): the risk floor of a *)
(* tool, dominance between candidates, and resolve, which decides what an  *)
(* agent gets to see for an intent and what it is recommended.             *)
(*                                                                         *)
(* A tool_id is a number, in the order of the strings; intent_fit is in    *)
(* hundredths.  A list of candidates is a sequence, because a request may  *)
(* name a tool_id twice; a position stands for the candidate there, and 0  *)
(* for None.                                                               *)
(***************************************************************************)
EXTENDS Integers, Sequences

None == 0

\* The Boolean fields of ToolSemantics.
Flag == {"read", "write", "destructive", "egress", "credential_access",
         "arbitrary_execution", "open_world"}

\* The MCP annotations that count: destructiveHint is True, readOnlyHint is False.
Hint == {"destructiveHint", "notReadOnly"}

\* RISK_WEIGHTS
weight(f) ==
  CASE f = "read"                -> 5
    [] f = "write"               -> 22
    [] f = "destructive"         -> 35
    [] f = "egress"              -> 24
    [] f = "credential_access"   -> 32
    [] f = "arbitrary_execution" -> 45
    [] f = "open_world"          -> 18

\* CATEGORY_FLOORS; a score is in 0..100.
category_for_score(score) ==
  CASE score >= 80 -> 4
    [] score >= 60 /\ score < 80 -> 3
    [] score >= 35 /\ score < 60 -> 2
    [] score >= 15 /\ score < 35 -> 1
    [] score < 15 -> 0

\* What flag f adds to the score; an annotation counts only where the judge did
\* not set the flag it hints at.
Evidence(f, flags, hints) ==
  CASE f \in flags -> weight(f)
    [] f \notin flags /\ f = "destructive" /\ "destructiveHint" \in hints -> 20
    [] f \notin flags /\ f = "write" /\ "notReadOnly" \in hints -> 8
    [] OTHER -> 0

Total(flags, hints) ==
  Evidence("read", flags, hints) + Evidence("write", flags, hints)
    + Evidence("destructive", flags, hints) + Evidence("egress", flags, hints)
    + Evidence("credential_access", flags, hints)
    + Evidence("arbitrary_execution", flags, hints)
    + Evidence("open_world", flags, hints)

\* RiskAssessment.score
assess_risk(flags, hints) ==
  IF Total(flags, hints) > 100 THEN 100 ELSE Total(flags, hints)

Score == 0..100
Fit == 0..100
Candidate(Tool, Capability) ==
  [tool: Tool, capability: Capability, flags: SUBSET Flag, score: Score, fit: Fit]

FitTolerance == 8

\* Mutant: the scores are not compared strictly.
dominates_weakly(safer, other) ==
  /\ safer.fit + FitTolerance >= other.fit
  /\ safer.score <= other.score
  /\ safer.flags \subseteq other.flags

\* dominates: privilege_vector compares flag by flag.
dominates(safer, other) ==
  /\ safer.fit + FitTolerance >= other.fit
  /\ safer.score < other.score
  /\ safer.flags \subseteq other.flags

\* mark_dominated, for the candidate at position i of cs.
dominated(cs, i) ==
  \E j \in DOMAIN cs : cs[j].tool # cs[i].tool /\ dominates(cs[j], cs[i])

\* effective_category: an operator's override of the capability replaces the
\* category the score gives.
NoOverride == 5
effective_category(c, overrides) ==
  IF overrides[c.capability] = NoOverride THEN category_for_score(c.score)
  ELSE overrides[c.capability]

\* The sort key (-intent_fit, score, tool_id); the sort is stable.
Precedes(cs, i, j) ==
  \/ cs[i].fit > cs[j].fit
  \/ cs[i].fit = cs[j].fit /\ cs[i].score < cs[j].score
  \/ cs[i].fit = cs[j].fit /\ cs[i].score = cs[j].score /\ cs[i].tool < cs[j].tool
  \/ cs[i].fit = cs[j].fit /\ cs[i].score = cs[j].score /\ cs[i].tool = cs[j].tool /\ i < j

\* eligible[0] after the sort, or None.
Best(cs, eligible) ==
  IF eligible = {} THEN None
  ELSE CHOOSE i \in eligible : \A j \in eligible \ {i} : Precedes(cs, i, j)

\* next(item for item in marked if item.tool.tool_id == requested_tool_id)
Requested(cs, tool) ==
  IF \E i \in DOMAIN cs : cs[i].tool = tool
  THEN CHOOSE i \in DOMAIN cs : cs[i].tool = tool /\ \A j \in 1..(i - 1) : cs[j].tool # tool
  ELSE None

\* Mutant: dominated alternatives are not removed.
Eligible_permitted(cs, tool, max, once, exceptions, overrides) ==
  {i \in DOMAIN cs :
     \/ effective_category(cs[i], overrides) <= max \/ cs[i].tool \in exceptions
     \/ cs[i].tool = tool /\ cs[i].tool \in exceptions \cup once}

\* The candidates resolve lets the agent see.
Eligible(cs, tool, max, once, exceptions, overrides) ==
  {i \in DOMAIN cs :
     \/ /\ ~dominated(cs, i)
        /\ effective_category(cs[i], overrides) <= max \/ cs[i].tool \in exceptions
     \/ cs[i].tool = tool /\ cs[i].tool \in exceptions \cup once}

\* resolve without the emergency stop: the visible tools, the recommendation or
\* the selection, and the position that needs a human, if one does.
resolve(cs, tool, max, once, exceptions, overrides) ==
  LET visible == Eligible(cs, tool, max, once, exceptions, overrides)
      asked == Requested(cs, tool)
      already_allowed == asked # None /\ tool \in exceptions \cup once
      over_limit == asked # None /\ effective_category(cs[asked], overrides) > max
  IN [visible |-> visible,
      selected |-> IF over_limit /\ ~already_allowed THEN None
                   ELSE IF already_allowed THEN asked ELSE Best(cs, visible),
      approval |-> IF over_limit /\ ~already_allowed THEN asked ELSE None,
      recommended |-> Best(cs, visible)]
=============================================================================
