----------------------------- MODULE MCResolver -----------------------------
\* Values for the constants of Resolver that a .cfg file cannot write, and the two
\* halves of its state space: requests that race for one tool, and requests that
\* choose between two.
EXTENDS Resolver, Functions, TLC

Sym == Permutations(Worker)

\* The second tool is annotated as not read-only.
SomeHints == [t \in Tool |-> IF t = 2 THEN {"notReadOnly"} ELSE {}]

\* Flag sets in and out of order of inclusion, on both sides of a MEDIUM ceiling, and
\* fits within and beyond the tolerance of each other.
ManyJudgements ==
  [capability: Capability, fit: {50, 58, 59},
   flags: {{"read"}, {"open_world"}, {"read", "write"}, {"read", "write", "destructive"}}]

\* A judge that may or may not see that a tool destroys: one on each side.
TwoJudgements ==
  [capability: Capability, fit: {50}, flags: {{"read"}, {"read", "write", "destructive"}}]

\* No tools, one tool, two, a list that names a tool twice, and one longer than MAX_TOOLS.
AllLists == {<<>>, <<1>>, <<1, 2>>, <<2, 2>>, <<2, 1, 1>>}

Judged(w) == {[capability |-> c.capability, flags |-> c.flags, fit |-> c.fit] : c \in Range(ranked[w])}

\* The second tool, or a judgement among many, has come into play.
Choosing ==
  \/ 2 \in exceptions \/ \E i \in Request : i[2] = 2 /\ pending[i].status # "NONE"
  \/ \E w \in Worker : \/ req[w].tool = 2 \/ 2 \in Range(req[w].tools)
                       \/ ~(Judged(w) \subseteq TwoJudgements)

\* Where there is a choice, one request is served at a time, and exceptions and one
\* allow-once for each request are the operators' only decisions.
Halves ==
  Choosing => /\ \A v, w \in Worker : pc[v] # "idle" /\ pc[w] # "idle" => v = w
              /\ ~stop /\ overrides = NoSnapshot.overrides
              /\ \A i \in Request : granted[i] <= 1
=============================================================================
