--------------------------- MODULE ResolverProofs ---------------------------
(***************************************************************************)
(* For any tools, judgements, requests and number of threads: what the     *)
(* resolver offers is authorised and least-privileged, filtering does not  *)
(* leave an agent empty-handed, an allow-once is used once, and nothing is *)
(* offered to a request the emergency stop covers.                         *)
(***************************************************************************)
EXTENDS Resolver, TLAPS, SequenceTheorems, WellFoundedInduction

-----------------------------------------------------------------------------
(* The pure part                                                           *)

\* The least-number principle, from the well-foundedness of < on Nat.
LEMMA LeastNatural ==
  ASSUME NEW S \in SUBSET Nat, S # {}
  PROVE  \E m \in S : \A n \in S : m <= n
<1>1. PICK m \in S : \A n \in S : ~ (<<n, m>> \in OpToRel(<, Nat))
  BY NatLessThanWellFounded, WFMin, Zenon
<1>2. \A n \in S : ~ (n < m)
  BY <1>1 DEF OpToRel
<1> QED  BY <1>2, SMT

\* A nonempty set of positions has one with the least value of a natural-valued f.
LEMMA LeastPosition ==
  ASSUME NEW E, E # {}, NEW f \in [E -> Nat]
  PROVE  \E i \in E : \A j \in E : f[i] <= f[j]
<1>1. {f[i] : i \in E} \in SUBSET Nat /\ {f[i] : i \in E} # {}
  OBVIOUS
<1>2. PICK m \in {f[i] : i \in E} : \A n \in {f[i] : i \in E} : m <= n
  BY <1>1, LeastNatural
<1> QED  BY <1>2

\* What one flag contributes.
LEMMA EvidenceValue ==
  ASSUME NEW flags, NEW hints
  PROVE  /\ Evidence("read", flags, hints) = IF "read" \in flags THEN 5 ELSE 0
         /\ Evidence("egress", flags, hints) = IF "egress" \in flags THEN 24 ELSE 0
         /\ Evidence("credential_access", flags, hints)
              = IF "credential_access" \in flags THEN 32 ELSE 0
         /\ Evidence("arbitrary_execution", flags, hints)
              = IF "arbitrary_execution" \in flags THEN 45 ELSE 0
         /\ Evidence("open_world", flags, hints) = IF "open_world" \in flags THEN 18 ELSE 0
         /\ Evidence("write", flags, hints)
              = IF "write" \in flags THEN 22 ELSE IF "notReadOnly" \in hints THEN 8 ELSE 0
         /\ Evidence("destructive", flags, hints)
              = IF "destructive" \in flags THEN 35 ELSE IF "destructiveHint" \in hints THEN 20 ELSE 0
BY DEF Evidence, weight

\* A score is within 0..100.
LEMMA ScoreType ==
  ASSUME NEW flags, NEW hints
  PROVE  assess_risk(flags, hints) \in Score
<1>1. Total(flags, hints) \in Nat
  BY EvidenceValue DEF Total
<1> QED  BY <1>1 DEF assess_risk, Score

\* The deterministic floor of core.py: "Judge output may add flags but may not
\* suppress them."  A judge that sets more flags never lowers a tool's score, although a
\* flag that is set silences the annotation that hints at it.
THEOREM RiskIsMonotone ==
  ASSUME NEW flags, NEW more, flags \subseteq more, NEW hints
  PROVE  assess_risk(flags, hints) <= assess_risk(more, hints)
<1>1. /\ Total(flags, hints) \in Nat /\ Total(more, hints) \in Nat
      /\ Total(flags, hints) <= Total(more, hints)
  BY EvidenceValue DEF Total
<1> QED  BY <1>1 DEF assess_risk

\* Categories order as scores do.
LEMMA CategoryMonotone ==
  ASSUME NEW s \in Score, NEW t \in Score, s <= t
  PROVE  /\ category_for_score(s) \in 0..4 /\ category_for_score(t) \in 0..4
         /\ category_for_score(s) <= category_for_score(t)
BY DEF category_for_score, Score

Candidates == Seq(Candidate(Tool, Capability))
Overrides == [Capability -> 0..NoOverride]

\* The candidate at a position is typed.
LEMMA CandidateType ==
  ASSUME NEW cs \in Candidates, NEW i \in DOMAIN cs
  PROVE  /\ i \in Nat \ {0} /\ cs[i].tool \in Tool /\ cs[i].tool \in Nat \ {0}
         /\ cs[i].capability \in Capability /\ cs[i].score \in Score /\ cs[i].score \in Nat
         /\ cs[i].fit \in Fit /\ cs[i].fit \in 0..100
<1>1. DOMAIN cs = 1..Len(cs) /\ Len(cs) \in Nat /\ cs[i] \in Candidate(Tool, Capability)
  BY DEF Candidates
<1>2. /\ cs[i].tool \in Tool /\ cs[i].capability \in Capability
      /\ cs[i].score \in Score /\ cs[i].fit \in Fit
  BY <1>1 DEF Candidate
<1>3. Tool \subseteq Nat \ {0}
  BY ResolverAssumption
<1>4. i \in 1..Len(cs)
  BY <1>1
<1>5. i \in Nat \ {0}
  BY <1>1, <1>4
<1>6. cs[i].tool \in Nat \ {0}
  BY <1>2, <1>3
<1>7. cs[i].score \in Nat /\ cs[i].fit \in 0..100
  BY <1>2 DEF Score, Fit
<1> QED  BY <1>2, <1>5, <1>6, <1>7

\* The sort has a first element: Best picks an eligible candidate.
LEMMA BestIsEligible ==
  ASSUME NEW cs \in Candidates, NEW E \in SUBSET DOMAIN cs, E # {}
  PROVE  Best(cs, E) \in E
<1>1. PICK a \in E : \A j \in E : 100 - cs[a].fit <= 100 - cs[j].fit
  <2> DEFINE f == [i \in E |-> 100 - cs[i].fit]
  <2>1. f \in [E -> Nat]
    BY CandidateType
  <2>2. \E i \in E : \A j \in E : f[i] <= f[j]
    BY <2>1, LeastPosition
  <2> QED  BY <2>2
<1> DEFINE E1 == {i \in E : cs[i].fit = cs[a].fit}
<1>2. PICK b \in E1 : \A j \in E1 : cs[b].score <= cs[j].score
  <2> DEFINE f == [i \in E1 |-> cs[i].score]
  <2>1. f \in [E1 -> Nat] /\ E1 # {}
    BY CandidateType
  <2> HIDE DEF E1
  <2>2. \E i \in E1 : \A j \in E1 : f[i] <= f[j]
    BY <2>1, LeastPosition
  <2> QED  BY <2>2
<1> DEFINE E2 == {i \in E1 : cs[i].score = cs[b].score}
<1>3. PICK c \in E2 : \A j \in E2 : cs[c].tool <= cs[j].tool
  <2> DEFINE f == [i \in E2 |-> cs[i].tool]
  <2>1. f \in [E2 -> Nat] /\ E2 # {}
    BY CandidateType
  <2> HIDE DEF E2
  <2>2. \E i \in E2 : \A j \in E2 : f[i] <= f[j]
    BY <2>1, LeastPosition
  <2> QED  BY <2>2
<1> DEFINE E3 == {i \in E2 : cs[i].tool = cs[c].tool}
<1>4. PICK d \in E3 : \A j \in E3 : d <= j
  <2>1. E3 \in SUBSET Nat /\ E3 # {}
    BY CandidateType
  <2> HIDE DEF E3
  <2> QED  BY <2>1, LeastNatural
<1>5. \A j \in E \ {d} : Precedes(cs, d, j)
  <2> SUFFICES ASSUME NEW j \in E \ {d}
               PROVE  Precedes(cs, d, j)
    OBVIOUS
  <2>0. /\ {d, j} \subseteq Nat /\ {cs[d].tool, cs[j].tool} \subseteq Nat
        /\ {cs[d].score, cs[j].score} \subseteq Nat /\ {cs[d].fit, cs[j].fit} \subseteq 0..100
    BY CandidateType
  <2>1. CASE j \notin E1
    <3>1. cs[j].fit # cs[d].fit /\ 100 - cs[d].fit <= 100 - cs[j].fit
      BY <1>1, <2>1
    <3>2. \A x, y \in 0..100 : x # y /\ 100 - y <= 100 - x => y > x
      OBVIOUS
    <3>3. cs[d].fit > cs[j].fit
      BY <2>0, <3>1, <3>2
    <3> QED  BY <3>3 DEF Precedes
  <2>2. CASE j \in E1 /\ j \notin E2
    <3>1. cs[j].score # cs[d].score /\ cs[d].score <= cs[j].score
          /\ cs[j].fit = cs[d].fit
      BY <1>2, <2>2
    <3> HIDE DEF E1, E2, E3
    <3> QED  BY <2>0, <3>1 DEF Precedes
  <2>3. CASE j \in E2 /\ j \notin E3
    <3>1. cs[j].tool # cs[d].tool /\ cs[d].tool <= cs[j].tool
          /\ cs[j].score = cs[d].score /\ cs[j].fit = cs[d].fit
      BY <1>3, <2>3
    <3> HIDE DEF E1, E2, E3
    <3> QED  BY <2>0, <3>1 DEF Precedes
  <2>4. CASE j \in E3
    <3>1. d <= j /\ d # j /\ cs[j].tool = cs[d].tool /\ cs[j].score = cs[d].score
          /\ cs[j].fit = cs[d].fit
      BY <1>4, <2>4
    <3> HIDE DEF E1, E2, E3
    <3> QED  BY <2>0, <3>1 DEF Precedes
  <2> QED  BY <2>1, <2>2, <2>3, <2>4
<1>6. \E i \in E : \A j \in E \ {i} : Precedes(cs, i, j)
  BY <1>5
<1> QED  BY <1>6 DEF Best

\* The requested candidate is the first with its tool_id.
LEMMA RequestedIsThere ==
  ASSUME NEW cs \in Candidates, NEW tool
  PROVE  \/ Requested(cs, tool) = None /\ \A i \in DOMAIN cs : cs[i].tool # tool
         \/ Requested(cs, tool) \in DOMAIN cs /\ cs[Requested(cs, tool)].tool = tool
<1>1. CASE \A i \in DOMAIN cs : cs[i].tool # tool
  BY <1>1 DEF Requested
<1>2. CASE \E i \in DOMAIN cs : cs[i].tool = tool
  <2> DEFINE E == {i \in DOMAIN cs : cs[i].tool = tool}
  <2>1. E \in SUBSET Nat /\ E # {}
    BY <1>2, CandidateType
  <2>2. PICK i \in E : \A j \in E : i <= j
    <3> HIDE DEF E
    <3> QED  BY <2>1, LeastNatural
  <2>3. \A j \in 1..(i - 1) : cs[j].tool # tool
    <3>1. DOMAIN cs = 1..Len(cs) /\ Len(cs) \in Nat
      BY DEF Candidates
    <3> QED  BY <2>2, <3>1
  <2>4. \E k \in DOMAIN cs : cs[k].tool = tool /\ \A j \in 1..(k - 1) : cs[j].tool # tool
    BY <2>2, <2>3
  <2> QED  BY <1>2, <2>4 DEF Requested
<1> QED  BY <1>1, <1>2

\* What resolve returns: positions, a selection among the visible ones, and an
\* approval only for the requested tool.
LEMMA ResolveType ==
  ASSUME NEW cs \in Candidates, NEW tool \in Tool \cup {None},
         NEW once, NEW exc, NEW over, once \subseteq {tool}
  PROVE  LET r == resolve(cs, tool, MaxAuto, once, exc, over)
         IN /\ r.visible \subseteq DOMAIN cs /\ r.visible \subseteq Nat
            /\ r.selected \in r.visible \cup {None} /\ r.selected \in Nat
            /\ r.approval \in DOMAIN cs \cup {None}
            /\ r.approval # None => cs[r.approval].tool = tool /\ tool \in Tool
<1> DEFINE visible == Eligible(cs, tool, MaxAuto, once, exc, over)
           asked == Requested(cs, tool)
<1>1. visible \subseteq DOMAIN cs
  BY DEF Eligible
<1>2. visible \subseteq Nat /\ 0 \notin visible
  BY <1>1, CandidateType
<1>3. Best(cs, visible) \in visible \cup {None}
  <2>1. CASE visible = {}
    BY <2>1 DEF Best
  <2>2. CASE visible # {}
    <3> HIDE DEF visible
    <3> QED  BY <2>2, <1>1, BestIsEligible
  <2> QED  BY <2>1, <2>2
<1>4. /\ asked \in DOMAIN cs \cup {None}
      /\ asked # None => asked \in DOMAIN cs /\ cs[asked].tool = tool /\ tool \in Tool
  BY RequestedIsThere, CandidateType DEF None
<1>5. asked # None /\ tool \in exc \cup once => asked \in visible
  BY <1>4 DEF Eligible
<1> QED
  <2> HIDE DEF visible, asked
  <2>1. None \in Nat  BY DEF None
  <2>2. Eligible(cs, tool, MaxAuto, once, exc, over) = visible /\ Requested(cs, tool) = asked
    BY DEF visible, asked
  <2> QED  BY <1>1, <1>2, <1>3, <1>4, <1>5, <2>1, <2>2 DEF resolve

\* Every visible candidate is within the ceiling or covered by a decision, and a
\* dominated one by a decision about the requested tool.
LEMMA ResolveAuthority ==
  ASSUME NEW cs \in Candidates, NEW tool, NEW once, NEW exc, NEW over,
         once \subseteq {tool},
         NEW k \in resolve(cs, tool, MaxAuto, once, exc, over).visible
  PROVE  /\ \/ effective_category(cs[k], over) <= MaxAuto
            \/ cs[k].tool \in exc
            \/ cs[k].tool = tool /\ tool \in once
         /\ dominated(cs, k) => cs[k].tool = tool /\ tool \in exc \cup once
BY DEF resolve, Eligible

\* The least risky candidate is not dominated, and without overrides it is within the
\* ceiling when any candidate is: filtering leaves something visible.
LEMMA ResolveLeavesSomething ==
  ASSUME NEW cs \in Candidates, NEW tool \in Tool \cup {None}, NEW once, NEW exc,
         NEW p \in DOMAIN cs, category_for_score(cs[p].score) <= MaxAuto
  PROVE  resolve(cs, tool, MaxAuto, once, exc, [c \in Capability |-> NoOverride]).visible # {}
<1> DEFINE over == [c \in Capability |-> NoOverride]
           f == [i \in DOMAIN cs |-> cs[i].score]
<1>1. f \in [DOMAIN cs -> Nat]
  BY CandidateType
<1>2. PICK i \in DOMAIN cs : \A j \in DOMAIN cs : cs[i].score <= cs[j].score
  <2>1. \E i \in DOMAIN cs : \A j \in DOMAIN cs : f[i] <= f[j]
    <3> HIDE DEF f
    <3> QED  BY <1>1, LeastPosition
  <2> QED  BY <2>1
<1>3. ~ dominated(cs, i)
  BY <1>2, CandidateType DEF dominated, dominates
<1>4. effective_category(cs[i], over) <= MaxAuto
  <2>1. category_for_score(cs[i].score) <= category_for_score(cs[p].score)
        /\ category_for_score(cs[i].score) \in 0..4 /\ category_for_score(cs[p].score) \in 0..4
    BY <1>2, CandidateType, CategoryMonotone
  <2>2. effective_category(cs[i], over) = category_for_score(cs[i].score)
    BY CandidateType DEF effective_category
  <2> QED  BY <2>1, <2>2, ResolverAssumption
<1>5. i \in Eligible(cs, tool, MaxAuto, once, exc, over)
  BY <1>3, <1>4 DEF Eligible
<1> QED  BY <1>5 DEF resolve

\* Something visible means something selected, unless a human is asked; and with an
\* allow-once for a tool that needed one, the tool is selected.
LEMMA ResolveSelects ==
  ASSUME NEW cs \in Candidates, NEW tool \in Tool \cup {None}, NEW exc, NEW over
  PROVE  /\ LET r == resolve(cs, tool, MaxAuto, {}, exc, over)
            IN r.approval = None /\ r.visible # {} => r.selected # None
         /\ resolve(cs, tool, MaxAuto, {}, exc, over).approval # None
              => resolve(cs, tool, MaxAuto, {tool}, exc, over).selected # None
<1> DEFINE asked == Requested(cs, tool)
           visible == Eligible(cs, tool, MaxAuto, {}, exc, over)
<1>1. asked # None => asked \in DOMAIN cs
  BY RequestedIsThere
<1>2. visible # {} => Best(cs, visible) # None
  <2>1. visible \in SUBSET DOMAIN cs
    BY DEF Eligible
  <2>2. None \notin DOMAIN cs
    BY CandidateType DEF None
  <2> HIDE DEF visible
  <2> QED  BY <2>1, <2>2, BestIsEligible
<1> QED
  <2>1. Eligible(cs, tool, MaxAuto, {}, exc, over) = visible /\ Requested(cs, tool) = asked
    OBVIOUS
  <2> HIDE DEF visible, asked
  <2> QED  BY <1>1, <1>2, <2>1 DEF resolve

-----------------------------------------------------------------------------
(* The inductive invariant                                                 *)

\* Where thread w's answer comes from: it is empty, or it is what resolve returned
\* on the thread's own snapshot while the stop did not cover the request.
Provenance(w) ==
  LET first == Resolved(w, snapshot[w], {})
      second == Resolved(w, snapshot[w], {req[w].tool})
      a == answer[w]
  IN \/ /\ a.visible = {} /\ a.selected = None
        /\ a.status \notin {"resolved", "approval_required"}
     \/ /\ ~watched[w] /\ a.status \in {"resolved", "approval_required"} /\ ~a.once
        /\ a.visible = first.visible /\ a.selected = first.selected
        /\ a.status = "resolved" => first.approval = None
     \/ /\ ~watched[w] /\ a.status = "resolved" /\ a.once
        /\ a.visible = second.visible /\ a.selected = second.selected
        /\ first.approval # None

\* A thread that asks the store about an allow-once holds a request that needs one.
Asking(w) ==
  pc[w] \in {"asking", "consuming", "recording"} =>
    /\ req[w].intent \in Intent /\ ~watched[w]
    /\ Resolved(w, snapshot[w], {}).approval # None

\* Operators' exceptions and overrides are never taken back: what a thread read of
\* them is still there.
SnapshotHolds(w) ==
  /\ snapshot[w].exceptions \subseteq exceptions
  /\ \A c \in Capability : snapshot[w].overrides[c] # NoOverride => overrides[c] # NoOverride

ThreadInv(w) ==
  /\ Provenance(w) /\ Asking(w) /\ SnapshotHolds(w)
  /\ pc[w] # "idle" => req[w].intent \in Intent
  /\ pc[w] # "answered" => answer[w] = NoAnswer
  /\ watched[w] => stop

\* An unconsumed allow-once is one decision that no selection used yet.
Unspent(i) == IF allow_once[i] = "unconsumed" THEN 1 ELSE 0
SpentOnce == \A i \in Request : released[i] + Unspent(i) <= granted[i]

IInv == TypeOK /\ (\A w \in Worker : ThreadInv(w)) /\ SpentOnce

-----------------------------------------------------------------------------
(* Lemmas about steps                                                      *)

\* A list of judged candidates.
LEMMA IsSeq ==
  ASSUME NEW S, NEW n \in Nat, NEW f \in [1..n -> S]
  PROVE  f \in Seq(S) /\ DOMAIN f = 1..n
BY SeqDef

\* resolve on what a thread holds is typed.
LEMMA ResolvedType ==
  ASSUME TypeOK, NEW w \in Worker, NEW seen, NEW once, once \subseteq {req[w].tool}
  PROVE  LET r == Resolved(w, seen, once)
         IN /\ r.visible \in SUBSET Nat /\ r.selected \in Nat
            /\ r.approval # None => /\ r.approval \in DOMAIN ranked[w]
                                    /\ req[w].tool \in Tool
<1>1. ranked[w] \in Candidates /\ req[w].tool \in Tool \cup {None}
  BY DEF TypeOK, Candidates
<1> QED  BY <1>1, ResolveType DEF Resolved

AnswerType == [status: Status, visible: SUBSET Nat, selected: Nat, once: BOOLEAN]

\* The empty answers.
LEMMA EmptyReply ==
  ASSUME NEW s \in Status
  PROVE  /\ Reply(s, Empty, FALSE) \in AnswerType
         /\ Reply(s, Empty, FALSE).visible = {} /\ Reply(s, Empty, FALSE).selected = None
         /\ Reply(s, Empty, FALSE).status = s
BY DEF Reply, Empty, AnswerType, None

\* The answer of a thread that has none.
LEMMA NoReply ==
  /\ NoAnswer \in AnswerType /\ NoAnswer.visible = {} /\ NoAnswer.selected = None
  /\ NoAnswer.status = "none"
<1>1. "none" \in Status
  BY DEF Status
<1> QED  BY <1>1, EmptyReply DEF NoAnswer

\* A thread with an empty answer, outside the allow-once exchange.
LEMMA EmptyThread ==
  ASSUME NEW w \in Worker, NEW s \in Status \ {"resolved", "approval_required"},
         pc'[w] \in {"idle", "judging", "judged", "answered"},
         pc'[w] # "idle" => req'[w].intent \in Intent,
         \/ pc'[w] = "answered" /\ answer'[w] = Reply(s, Empty, FALSE)
         \/ answer'[w] = NoAnswer,
         SnapshotHolds(w)', watched'[w] => stop'
  PROVE  ThreadInv(w)'
<1>1. /\ answer'[w].visible = {} /\ answer'[w].selected = None
      /\ answer'[w].status \notin {"resolved", "approval_required"}
  <2>1. CASE answer'[w] = Reply(s, Empty, FALSE)
    <3>1. s \in Status
      OBVIOUS
    <3>2. /\ Reply(s, Empty, FALSE).visible = {} /\ Reply(s, Empty, FALSE).selected = None
          /\ Reply(s, Empty, FALSE).status = s
      BY <3>1, EmptyReply
    <3> QED  BY <2>1, <3>2
  <2>2. CASE answer'[w] = NoAnswer
    BY <2>2, NoReply
  <2> QED  BY <2>1, <2>2
<1>2. Provenance(w)'
  BY <1>1 DEF Provenance
<1>3. Asking(w)'
  BY DEF Asking
<1>4. pc'[w] # "answered" => answer'[w] = NoAnswer
  OBVIOUS
<1> QED  BY <1>2, <1>3, <1>4 DEF ThreadInv

\* A thread that a step leaves alone keeps its invariant.
LEMMA Frame ==
  ASSUME NEW w \in Worker, ThreadInv(w),
         pc'[w] = pc[w], req'[w] = req[w], ranked'[w] = ranked[w],
         snapshot'[w] = snapshot[w], answer'[w] = answer[w],
         watched'[w] => watched[w] /\ stop',
         exceptions \subseteq exceptions',
         \A c \in Capability : overrides[c] # NoOverride => overrides'[c] # NoOverride
  PROVE  ThreadInv(w)'
BY DEF ThreadInv, Provenance, Asking, SnapshotHolds, Resolved

-----------------------------------------------------------------------------
(* One lemma per action                                                    *)

\* The threads other than the one that moves.
LEMMA OthersKeep ==
  ASSUME IInv, NEW w \in Worker, UNCHANGED <<stop, exceptions, overrides>>,
         \A v \in Worker \ {w} :
           /\ pc'[v] = pc[v] /\ req'[v] = req[v] /\ ranked'[v] = ranked[v]
           /\ snapshot'[v] = snapshot[v] /\ answer'[v] = answer[v] /\ watched'[v] = watched[v]
  PROVE  \A v \in Worker \ {w} : ThreadInv(v)'
<1> SUFFICES ASSUME NEW v \in Worker \ {w}
             PROVE  ThreadInv(v)'
  OBVIOUS
<1>1. ThreadInv(v)
  BY DEF IInv
<1>2. watched[v] => stop
  BY <1>1 DEF ThreadInv
<1> QED  BY <1>1, <1>2, Frame

\* A new request: the thread holds nothing yet, and is watched if the stop is on.
LEMMA ReceiveKeeps ==
  ASSUME IInv, NEW w \in Worker, NEW i \in Intent, NEW t \in Tool \cup {None},
         NEW tools \in ToolLists, Receive(w, i, t, tools)
  PROVE  IInv'
<1> USE DEF IInv
<1>1. TypeOK'
  <2>1. tools \in Seq(Tool) /\ MaxTools \in Nat
    BY ResolverAssumption
  <2>2. (IF Len(tools) > MaxTools THEN SubSeq(tools, 1, MaxTools) ELSE tools) \in Seq(Tool)
    BY <2>1
  <2>3. Reply("no_tools", Empty, FALSE) \in AnswerType
    BY EmptyReply DEF Status
  <2>4. answer' \in [Worker -> AnswerType]
    BY <2>3 DEF TypeOK, Receive, Answer, AnswerType
  <2>a. [intent |-> i, tool |-> t,
         tools |-> IF Len(tools) > MaxTools THEN SubSeq(tools, 1, MaxTools) ELSE tools]
          \in [intent: Intent \cup {None}, tool: Tool \cup {None}, tools: Seq(Tool)]
    BY <2>2
  <2>5. req' \in [Worker -> [intent: Intent \cup {None}, tool: Tool \cup {None}, tools: Seq(Tool)]]
    BY <2>a DEF TypeOK, Receive
  <2>b. pc' = [pc EXCEPT ![w] = "answered"] \/ pc' = [pc EXCEPT ![w] = "judging"]
    BY DEF Receive, Goto, Answer
  <2>6. pc' \in [Worker -> {"idle", "judging", "judged", "asking", "consuming", "recording", "answered"}]
    BY <2>b DEF TypeOK
  <2> QED  BY <2>4, <2>5, <2>6 DEF TypeOK, Receive, store, AnswerType
<1>2. \A v \in Worker \ {w} : ThreadInv(v)'
  BY OthersKeep DEF TypeOK, Receive, Goto, Answer, store
<1>3. ThreadInv(w)'
  <2>1. SnapshotHolds(w)'
    BY DEF ThreadInv, SnapshotHolds, Receive, store
  <2>2. answer[w] = NoAnswer
    BY DEF ThreadInv, Receive
  <2>3. /\ pc'[w] \in {"judging", "answered"} /\ req'[w].intent \in Intent
        /\ watched'[w] => stop'
        /\ \/ pc'[w] = "answered" /\ answer'[w] = Reply("no_tools", Empty, FALSE)
           \/ answer'[w] = NoAnswer
    BY <2>2 DEF TypeOK, Receive, Goto, Answer, store
  <2>4. "no_tools" \in Status \ {"resolved", "approval_required"}
    BY DEF Status
  <2> QED  BY <2>1, <2>3, <2>4, EmptyThread
<1>4. SpentOnce'
  BY DEF SpentOnce, Unspent, Receive, store
<1> QED  BY <1>1, <1>2, <1>3, <1>4

\* The judge's answers become typed candidates; the store is not touched.
LEMMA JudgeKeeps ==
  ASSUME IInv, NEW w \in Worker, NEW j \in [1..Len(req[w].tools) -> Judgements], Judge(w, j)
  PROVE  IInv'
<1> USE DEF IInv
<1>1. TypeOK'
  <2> DEFINE cs == [k \in 1..Len(req[w].tools) |->
                     LET t == req[w].tools[k]
                     IN [tool |-> t, capability |-> j[k].capability, flags |-> j[k].flags,
                         score |-> assess_risk(j[k].flags, Hints[t]), fit |-> j[k].fit]]
  <2>1. req[w].tools \in Seq(Tool)
    BY DEF TypeOK
  <2>2. \A k \in 1..Len(req[w].tools) : cs[k] \in Candidate(Tool, Capability)
    <3> SUFFICES ASSUME NEW k \in 1..Len(req[w].tools)
                 PROVE  cs[k] \in Candidate(Tool, Capability)
      OBVIOUS
    <3>1. req[w].tools[k] \in Tool
      BY <2>1
    <3>2. j[k] \in [capability: Capability, flags: SUBSET Flag, fit: Fit]
      BY ResolverAssumption
    <3> QED  BY <3>1, <3>2, ScoreType DEF Candidate
  <2>3. cs \in Seq(Candidate(Tool, Capability))
    <3>1. cs \in [1..Len(req[w].tools) -> Candidate(Tool, Capability)]
      BY <2>2
    <3>2. Len(req[w].tools) \in Nat
      BY <2>1
    <3> HIDE DEF cs
    <3> QED  BY <3>1, <3>2, IsSeq
  <2>4. ranked' = [ranked EXCEPT ![w] = cs]
    BY DEF Judge
  <2> HIDE DEF cs
  <2> QED  BY <2>3, <2>4 DEF TypeOK, Judge, Goto, store, history
<1>2. \A v \in Worker \ {w} : ThreadInv(v)'
  BY OthersKeep DEF TypeOK, Judge, Goto, store, history
<1>3. ThreadInv(w)'
  <2>1. SnapshotHolds(w)'
    BY DEF ThreadInv, SnapshotHolds, Judge, store
  <2>2. /\ pc'[w] = "judged" /\ req'[w].intent \in Intent
        /\ answer'[w] = NoAnswer /\ (watched'[w] => stop')
    BY DEF ThreadInv, TypeOK, Judge, Goto, store, history
  <2>3. "none" \in Status \ {"resolved", "approval_required"}
    BY DEF Status
  <2> QED  BY <2>1, <2>2, <2>3, EmptyThread
<1>4. SpentOnce'
  BY DEF SpentOnce, Unspent, Judge, store, history
<1> QED  BY <1>1, <1>2, <1>3, <1>4

\* A judge or catalog that is down: the answer is empty.
LEMMA JudgeUnavailableKeeps ==
  ASSUME IInv, NEW w \in Worker, JudgeUnavailable(w)
  PROVE  IInv'
<1> USE DEF IInv
<1>0. "judge_unavailable" \in Status \ {"resolved", "approval_required"}
  BY DEF Status
<1>1. TypeOK'
  BY <1>0, EmptyReply DEF TypeOK, JudgeUnavailable, Goto, Answer, store, history, AnswerType
<1>2. \A v \in Worker \ {w} : ThreadInv(v)'
  BY OthersKeep DEF TypeOK, JudgeUnavailable, Goto, Answer, store, history
<1>3. ThreadInv(w)'
  <2>1. SnapshotHolds(w)'
    BY DEF ThreadInv, SnapshotHolds, JudgeUnavailable, store
  <2>2. /\ pc'[w] = "answered" /\ req'[w].intent \in Intent
        /\ answer'[w] = Reply("judge_unavailable", Empty, FALSE) /\ (watched'[w] => stop')
    BY DEF ThreadInv, TypeOK, JudgeUnavailable, Goto, Answer, store, history
  <2> QED  BY <1>0, <2>1, <2>2, EmptyThread
<1>4. SpentOnce'
  BY DEF SpentOnce, Unspent, JudgeUnavailable, store, history
<1> QED  BY <1>1, <1>2, <1>3, <1>4

\* The snapshot and the first resolve: the only step that reads the stop.
LEMMA ResolveKeeps ==
  ASSUME IInv, NEW w \in Worker, Resolve(w)
  PROVE  IInv'
<1> USE DEF IInv
<1> DEFINE seen == [exceptions |-> exceptions, overrides |-> overrides]
           r == Resolved(w, seen, {})
<1>0. Reply("resolved", r, FALSE) \in AnswerType
  <2>1. r.visible \in SUBSET Nat /\ r.selected \in Nat
    BY ResolvedType
  <2> HIDE DEF r
  <2> QED  BY <2>1 DEF Reply, AnswerType, Status
<1>r. LET a == Reply("resolved", r, FALSE)
      IN a.status = "resolved" /\ a.visible = r.visible /\ a.selected = r.selected /\ a.once = FALSE
  <2> HIDE DEF r
  <2> QED  BY DEF Reply
<1>e. "emergency_stop" \in Status \ {"resolved", "approval_required"}
  BY DEF Status
<1>s. /\ pc[w] = "judged" /\ snapshot' = [snapshot EXCEPT ![w] = seen]
      /\ IF stop THEN Answer(w, Reply("emergency_stop", Empty, FALSE))
         ELSE IF r.approval = None THEN Answer(w, Reply("resolved", r, FALSE))
         ELSE Goto(w, "asking") /\ UNCHANGED answer
      /\ UNCHANGED <<store, req, ranked, history>>
  BY DEF Resolve
<1>1. TypeOK'
  <2>1. seen \in [exceptions: SUBSET Tool, overrides: [Capability -> 0..NoOverride]]
    BY DEF TypeOK
  <2> HIDE DEF r, seen
  <2>2. answer' \in [Worker -> AnswerType]
    <3>1. answer \in [Worker -> AnswerType]
      BY DEF TypeOK, AnswerType
    <3>2. Reply("emergency_stop", Empty, FALSE) \in AnswerType
      BY <1>e, EmptyReply
    <3>3. \E a \in AnswerType : answer' = answer \/ answer' = [answer EXCEPT ![w] = a]
      BY <1>0, <1>s, <3>2 DEF Answer
    <3> QED  BY <3>1, <3>3
  <2>p. \/ pc' = [pc EXCEPT ![w] = "answered"]
        \/ pc' = [pc EXCEPT ![w] = "asking"]
    BY <1>s DEF Goto, Answer
  <2>3. pc' \in [Worker -> {"idle", "judging", "judged", "asking", "consuming", "recording", "answered"}]
    BY <2>p DEF TypeOK
  <2>4. snapshot' \in [Worker -> [exceptions: SUBSET Tool, overrides: [Capability -> 0..NoOverride]]]
    BY <1>s, <2>1 DEF TypeOK
  <2> QED  BY <1>s, <2>2, <2>3, <2>4 DEF TypeOK, store, history, AnswerType
<1>2. \A v \in Worker \ {w} : ThreadInv(v)'
  <2> HIDE DEF r
  <2> QED  BY <1>s, OthersKeep DEF TypeOK, Goto, Answer, store, history
<1>3. ThreadInv(w)'
  <2>1. snapshot'[w] = seen /\ Resolved(w, snapshot[w], {})' = r
    BY <1>s DEF TypeOK, Resolved
  <2>2. SnapshotHolds(w)'
    BY <1>s, <2>1 DEF SnapshotHolds, store
  <2>3. /\ watched'[w] = watched[w] /\ stop' = stop /\ (watched[w] => stop)
        /\ req'[w].intent \in Intent /\ answer[w] = NoAnswer
    BY <1>s DEF ThreadInv, store, history
  <2> HIDE DEF r
  <2>4. CASE stop
    <3>1. pc'[w] = "answered" /\ answer'[w] = Reply("emergency_stop", Empty, FALSE)
      BY <2>4, <1>s DEF TypeOK, Goto, Answer
    <3> QED  BY <3>1, <1>e, <2>2, <2>3, EmptyThread
  <2>5. CASE ~stop /\ r.approval = None
    <3>1. pc'[w] = "answered" /\ answer'[w] = Reply("resolved", r, FALSE)
      BY <2>5, <1>s DEF TypeOK, Goto, Answer
    <3>2. Provenance(w)'
      BY <3>1, <1>r, <2>1, <2>3, <2>5 DEF Provenance
    <3> QED  BY <3>1, <3>2, <2>2, <2>3 DEF ThreadInv, Asking
  <2>6. CASE ~stop /\ r.approval # None
    <3>1. pc'[w] = "asking" /\ answer'[w] = NoAnswer
      BY <2>6, <2>3, <1>s DEF TypeOK, Goto
    <3>2. Provenance(w)'
      BY <3>1, NoReply DEF Provenance
    <3>3. Asking(w)'
      BY <2>1, <2>3, <2>6 DEF Asking
    <3> QED  BY <3>1, <3>2, <3>3, <2>2, <2>3 DEF ThreadInv
  <2> QED  BY <2>4, <2>5, <2>6
<1>4. SpentOnce'
  BY <1>s DEF SpentOnce, Unspent, store, history
<1> QED  BY <1>1, <1>2, <1>3, <1>4

\* has_unconsumed_once only decides where the thread goes.
LEMMA CheckOnceKeeps ==
  ASSUME IInv, NEW w \in Worker, CheckOnce(w)
  PROVE  IInv'
<1> USE DEF IInv
<1>1. TypeOK'
  BY DEF TypeOK, CheckOnce, Goto, store, history
<1>2. \A v \in Worker \ {w} : ThreadInv(v)'
  BY OthersKeep DEF TypeOK, CheckOnce, Goto, store, history
<1>3. ThreadInv(w)'
  <2>1. pc[w] = "asking" /\ pc'[w] \in {"consuming", "recording"}
    BY DEF CheckOnce, Goto, TypeOK
  <2> QED  BY <2>1 DEF CheckOnce, store, history, ThreadInv, Provenance, Asking, SnapshotHolds, Resolved
<1>4. SpentOnce'
  BY DEF SpentOnce, Unspent, CheckOnce, store, history
<1> QED  BY <1>1, <1>2, <1>3, <1>4

\* consume_once: one unconsumed decision becomes one selection, or the thread goes empty.
LEMMA ConsumeKeeps ==
  ASSUME IInv, NEW w \in Worker, Consume(w)
  PROVE  IInv'
<1> USE DEF IInv
<1> DEFINE r == Resolved(w, snapshot[w], {req[w].tool})
           a == Reply("resolved", r, TRUE)
<1>0. a \in AnswerType
  <2>1. r.visible \in SUBSET Nat /\ r.selected \in Nat
    BY ResolvedType
  <2> HIDE DEF r
  <2> QED  BY <2>1 DEF Reply, AnswerType, Status
<1>r. a.status = "resolved" /\ a.visible = r.visible /\ a.selected = r.selected /\ a.once = TRUE
  <2> HIDE DEF r
  <2> QED  BY DEF Reply
<1>e. "one_shot_grant_already_consumed" \in Status \ {"resolved", "approval_required"}
  BY DEF Status
<1>i. Id(w) \in Request /\ ThreadInv(w) /\ pc[w] = "consuming"
      /\ Resolved(w, snapshot[w], {}).approval # None /\ ~watched[w]
  <2>1. pc[w] = "consuming" /\ ThreadInv(w)
    BY DEF Consume
  <2>2. req[w].intent \in Intent /\ Resolved(w, snapshot[w], {}).approval # None /\ ~watched[w]
    BY <2>1 DEF ThreadInv, Asking
  <2>3. req[w].tool \in Tool
    BY <2>2, ResolvedType
  <2> QED  BY <2>1, <2>2, <2>3 DEF Id, Request
<1>u. UNCHANGED <<stop, exceptions, overrides, pending, req, ranked, snapshot, granted, watched>>
  BY DEF Consume
<1>c. CASE allow_once[Id(w)] = "unconsumed"
  <2>1. /\ allow_once' = [allow_once EXCEPT ![Id(w)] = "consumed"]
        /\ released' = [released EXCEPT ![Id(w)] = @ + 1]
        /\ pc' = [pc EXCEPT ![w] = "answered"] /\ answer' = [answer EXCEPT ![w] = a]
    BY <1>c DEF Consume, consume_once, Answer, Goto
  <2> HIDE DEF a
  <2>2. TypeOK'
    BY <1>0, <1>i, <1>u, <2>1 DEF TypeOK, AnswerType
  <2>3. \A v \in Worker \ {w} : ThreadInv(v)'
    BY <1>u, <2>1, OthersKeep DEF TypeOK
  <2>4. ThreadInv(w)'
    <3>1. pc'[w] = "answered" /\ answer'[w] = a
      BY <2>1 DEF TypeOK
    <3>2. /\ Resolved(w, snapshot[w], {})' = Resolved(w, snapshot[w], {})
          /\ Resolved(w, snapshot[w], {req[w].tool})' = r
      BY <1>u DEF Resolved
    <3> HIDE DEF r
    <3>3. Provenance(w)'
      BY <3>1, <3>2, <1>r, <1>i, <1>u DEF Provenance
    <3> QED  BY <3>1, <3>3, <1>i, <1>u DEF ThreadInv, Asking, SnapshotHolds
  <2>5. SpentOnce'
    BY <1>i, <1>c, <1>u, <2>1 DEF SpentOnce, Unspent, TypeOK
  <2> QED  BY <2>2, <2>3, <2>4, <2>5
<1>d. CASE allow_once[Id(w)] # "unconsumed"
  <2>1. /\ UNCHANGED <<allow_once, released>> /\ pc' = [pc EXCEPT ![w] = "answered"]
        /\ answer' = [answer EXCEPT ![w] = Reply("one_shot_grant_already_consumed", Empty, FALSE)]
    BY <1>d DEF Consume, consume_once, Answer, Goto
  <2>2. TypeOK'
    BY <1>e, <1>u, <2>1, EmptyReply DEF TypeOK, AnswerType
  <2>3. \A v \in Worker \ {w} : ThreadInv(v)'
    BY <1>u, <2>1, OthersKeep DEF TypeOK
  <2>4. ThreadInv(w)'
    <3>1. SnapshotHolds(w)' /\ (watched'[w] => stop') /\ req'[w].intent \in Intent
      BY <1>i, <1>u DEF ThreadInv, SnapshotHolds
    <3>2. pc'[w] = "answered"
          /\ answer'[w] = Reply("one_shot_grant_already_consumed", Empty, FALSE)
      BY <2>1 DEF TypeOK
    <3> QED  BY <3>1, <3>2, <1>e, EmptyThread
  <2>5. SpentOnce'
    BY <1>u, <2>1 DEF SpentOnce, Unspent
  <2> QED  BY <2>2, <2>3, <2>4, <2>5
<1> QED  BY <1>c, <1>d

\* record_pending_approval of the requested tool.
LEMMA RecordKeeps ==
  ASSUME IInv, NEW w \in Worker, Record(w)
  PROVE  IInv'
<1> USE DEF IInv
<1> DEFINE r == Resolved(w, snapshot[w], {})
           a == Reply("approval_required", r, FALSE)
<1>1. /\ pc[w] = "recording" /\ ThreadInv(w)
      /\ pending' = [pending EXCEPT ![Id(w)] =
           [status |-> "PENDING", capability |-> ranked[w][r.approval].capability]]
      /\ pc' = [pc EXCEPT ![w] = "answered"] /\ answer' = [answer EXCEPT ![w] = a]
      /\ UNCHANGED <<stop, exceptions, overrides, allow_once, req, ranked, snapshot, history>>
  BY DEF Record, Answer, Goto
<1>2. req[w].intent \in Intent /\ r.approval # None /\ ~watched[w]
  BY <1>1 DEF ThreadInv, Asking
<1>3. /\ r.visible \in SUBSET Nat /\ r.selected \in Nat
      /\ r.approval \in DOMAIN ranked[w] /\ req[w].tool \in Tool
  BY <1>2, ResolvedType
<1>4. ranked[w][r.approval].capability \in Capability
  <2>1. ranked[w] \in Candidates
    BY DEF TypeOK, Candidates
  <2> HIDE DEF r
  <2> QED  BY <1>3, <2>1, CandidateType
<1>5. [status |-> "PENDING", capability |-> ranked[w][r.approval].capability] \in Row
  <2> HIDE DEF r
  <2> QED  BY <1>4 DEF Row
<1>6. a \in AnswerType /\ a.status = "approval_required" /\ a.visible = r.visible
      /\ a.selected = r.selected /\ a.once = FALSE
  <2> HIDE DEF r
  <2> QED  BY <1>3 DEF Reply, AnswerType, Status
<1>7. TypeOK'
  <2> DEFINE row == [status |-> "PENDING", capability |-> ranked[w][r.approval].capability]
  <2>1. row \in Row /\ pending' = [pending EXCEPT ![Id(w)] = row]
    BY <1>1, <1>5
  <2> HIDE DEF a, r, row
  <2>2. pending' \in [Request -> Row]
    BY <2>1 DEF TypeOK
  <2> QED  BY <1>1, <1>6, <2>2 DEF TypeOK, AnswerType, history
<1>8. \A v \in Worker \ {w} : ThreadInv(v)'
  <2> HIDE DEF a, r
  <2> QED  BY <1>1, OthersKeep DEF TypeOK, history
<1>9. ThreadInv(w)'
  <2>1. pc'[w] = "answered" /\ answer'[w] = a /\ watched' = watched
    BY <1>1 DEF TypeOK, history
  <2>2. Resolved(w, snapshot[w], {})' = r
    BY <1>1 DEF Resolved
  <2> HIDE DEF a, r
  <2>3. Provenance(w)'
    BY <1>1, <1>2, <1>6, <2>1, <2>2 DEF Provenance
  <2> QED  BY <1>1, <1>2, <2>1, <2>3 DEF ThreadInv, Asking, SnapshotHolds
<1>10. SpentOnce'
  BY <1>1 DEF SpentOnce, Unspent, history
<1> QED  BY <1>7, <1>8, <1>9, <1>10

\* An empty thread has nothing to lose.
LEMMA ForgottenThread ==
  ASSUME IInv, NEW w \in Worker, pc'[w] = "idle", answer'[w] = NoAnswer,
         snapshot'[w] = NoSnapshot, watched'[w] = FALSE
  PROVE  ThreadInv(w)'
<1>1. SnapshotHolds(w)'
  BY DEF SnapshotHolds, NoSnapshot
<1>2. "none" \in Status \ {"resolved", "approval_required"}
  BY DEF Status
<1> QED  BY <1>1, <1>2, EmptyThread

\* The values of an idle thread.
LEMMA IdleType ==
  /\ NoRequest \in [intent: Intent \cup {None}, tool: Tool \cup {None}, tools: Seq(Tool)]
  /\ <<>> \in Seq(Candidate(Tool, Capability))
  /\ NoSnapshot \in [exceptions: SUBSET Tool, overrides: [Capability -> 0..NoOverride]]
BY DEF NoRequest, NoSnapshot, NoOverride

\* The answer leaves.
LEMMA SendKeeps ==
  ASSUME IInv, NEW w \in Worker, Send(w)
  PROVE  IInv'
<1> USE DEF IInv
<1>1. TypeOK'
  BY IdleType, NoReply DEF TypeOK, Send, Goto, store, AnswerType
<1>2. \A v \in Worker \ {w} : ThreadInv(v)'
  BY OthersKeep DEF TypeOK, Send, Goto, store
<1>3. ThreadInv(w)'
  BY ForgottenThread DEF TypeOK, Send, Goto
<1>4. SpentOnce'
  BY DEF SpentOnce, Unspent, Send, store
<1> QED  BY <1>1, <1>2, <1>3, <1>4

\* A restart empties every thread.
LEMMA RestartKeeps ==
  ASSUME IInv, Restart
  PROVE  IInv'
<1> USE DEF IInv
<1>1. TypeOK'
  BY IdleType, NoReply DEF TypeOK, Restart, store, AnswerType
<1>2. \A w \in Worker : ThreadInv(w)'
  BY ForgottenThread DEF Restart
<1>3. SpentOnce'
  BY DEF SpentOnce, Unspent, Restart, store
<1> QED  BY <1>1, <1>2, <1>3

\* Deciding pending requests keeps their rows typed.
LEMMA DecideType ==
  ASSUME TypeOK, NEW p, NEW s \in {"APPROVED_ONCE", "EXCEPTION", "CAPABILITY_OVERRIDE"}
  PROVE  Decide(p, s) \in [Request -> Row]
<1> SUFFICES ASSUME NEW i \in Request
             PROVE  Decide(p, s)[i] \in Row
  BY DEF Decide
<1>1. pending[i] \in Row
  BY DEF TypeOK
<1>2. [pending[i] EXCEPT !.status = s] \in Row
  BY <1>1 DEF Row
<1> QED  BY <1>1, <1>2 DEF Decide

\* set_emergency_stop: lifting the stop ends the watch of every request.
LEMMA StopKeeps ==
  ASSUME IInv, NEW enabled \in BOOLEAN, set_emergency_stop(enabled)
  PROVE  IInv'
<1> USE DEF IInv
<1>1. TypeOK'
  BY DEF TypeOK, set_emergency_stop, thread
<1>2. \A w \in Worker : ThreadInv(w)'
  <2> SUFFICES ASSUME NEW w \in Worker
               PROVE  ThreadInv(w)'
    OBVIOUS
  <2>1. watched'[w] => watched[w] /\ stop'
    BY DEF set_emergency_stop
  <2> QED  BY <2>1, Frame DEF set_emergency_stop, thread
<1>3. SpentOnce'
  BY DEF SpentOnce, Unspent, set_emergency_stop
<1> QED  BY <1>1, <1>2, <1>3

\* add_tool_exception only adds.
LEMMA ExceptionKeeps ==
  ASSUME IInv, NEW t \in Tool, add_tool_exception(t)
  PROVE  IInv'
<1> USE DEF IInv
<1>1. TypeOK'
  <2>1. pending' \in [Request -> Row]
    BY DecideType DEF add_tool_exception
  <2> QED  BY <2>1 DEF TypeOK, add_tool_exception, thread, history
<1>2. \A w \in Worker : ThreadInv(w)'
  <2> SUFFICES ASSUME NEW w \in Worker
               PROVE  ThreadInv(w)'
    OBVIOUS
  <2>1. watched'[w] => watched[w] /\ stop'
    BY DEF add_tool_exception, ThreadInv, history
  <2> QED  BY <2>1, Frame DEF add_tool_exception, thread
<1>3. SpentOnce'
  BY DEF SpentOnce, Unspent, add_tool_exception, history
<1> QED  BY <1>1, <1>2, <1>3

\* set_capability_override replaces a level and removes none.
LEMMA OverrideKeeps ==
  ASSUME IInv, NEW c \in Capability, NEW level \in Levels, set_capability_override(c, level)
  PROVE  IInv'
<1> USE DEF IInv
<1>0. level \in 0..4
  BY ResolverAssumption
<1>1. TypeOK'
  <2>1. pending' \in [Request -> Row]
    BY DecideType DEF set_capability_override
  <2>2. overrides' \in [Capability -> 0..NoOverride]
    BY <1>0 DEF TypeOK, set_capability_override, NoOverride
  <2> QED  BY <2>1, <2>2 DEF TypeOK, set_capability_override, thread, history
<1>2. \A w \in Worker : ThreadInv(w)'
  <2> SUFFICES ASSUME NEW w \in Worker
               PROVE  ThreadInv(w)'
    OBVIOUS
  <2>1. watched'[w] => watched[w] /\ stop'
    BY DEF set_capability_override, ThreadInv, history
  <2>2. \A d \in Capability : overrides[d] # NoOverride => overrides'[d] # NoOverride
    BY <1>0 DEF TypeOK, set_capability_override, NoOverride
  <2> QED  BY <2>1, <2>2, Frame DEF set_capability_override, thread
<1>3. SpentOnce'
  BY DEF SpentOnce, Unspent, set_capability_override, history
<1> QED  BY <1>1, <1>2, <1>3

\* grant_once: one more decision, and at most one more unconsumed row.
LEMMA GrantKeeps ==
  ASSUME IInv, NEW i \in Request, grant_once(i)
  PROVE  IInv'
<1> USE DEF IInv
<1>1. TypeOK'
  <2>1. pending' \in [Request -> Row]
    BY DecideType DEF grant_once
  <2>2. granted' \in [Request -> Nat]
    BY DEF TypeOK, grant_once
  <2>3. allow_once' \in [Request -> {"none", "unconsumed", "consumed"}]
    BY DEF TypeOK, grant_once
  <2> QED  BY <2>1, <2>2, <2>3 DEF TypeOK, grant_once, thread
<1>2. \A w \in Worker : ThreadInv(w)'
  <2> SUFFICES ASSUME NEW w \in Worker
               PROVE  ThreadInv(w)'
    OBVIOUS
  <2>1. watched'[w] => watched[w] /\ stop'
    BY DEF grant_once, ThreadInv
  <2> QED  BY <2>1, Frame DEF grant_once, thread
<1>3. SpentOnce'
  BY DEF SpentOnce, Unspent, grant_once, TypeOK
<1> QED  BY <1>1, <1>2, <1>3

\* Every step keeps the invariant.
LEMMA NextKeeps ==
  ASSUME IInv, [Next]_vars
  PROVE  IInv'
<1>1. ASSUME NEW w \in Worker, ThreadStep(w)
      PROVE  IInv'
  BY <1>1, ReceiveKeeps, JudgeKeeps, JudgeUnavailableKeeps, ResolveKeeps, CheckOnceKeeps,
     ConsumeKeeps, RecordKeeps, SendKeeps DEF ThreadStep
<1>2. ASSUME AdminStep
      PROVE  IInv'
  BY <1>2, StopKeeps, ExceptionKeeps, OverrideKeeps, GrantKeeps DEF AdminStep
<1>3. ASSUME UNCHANGED vars
      PROVE  IInv'
  <2>1. TypeOK' /\ SpentOnce'
    BY <1>3 DEF IInv, TypeOK, SpentOnce, Unspent, vars, store, thread, history
  <2>2. ASSUME NEW w \in Worker
        PROVE  ThreadInv(w)'
    <3>1. ThreadInv(w) /\ (watched[w] => stop)
      BY DEF IInv, ThreadInv
    <3> QED  BY <1>3, <3>1, Frame DEF vars, store, thread, history
  <2> QED  BY <2>1, <2>2 DEF IInv
<1> QED  BY <1>1, <1>2, <1>3, RestartKeeps DEF Next

\* The invariant holds in every reachable state.
THEOREM ResolverInvariance == Spec => []IInv
<1>1. Init => IInv
  <2> SUFFICES ASSUME Init
               PROVE  IInv
    OBVIOUS
  <2>1. TypeOK
    <3>1. [status |-> "NONE", capability |-> None] \in Row
      BY DEF Row
    <3>2. pending \in [Request -> Row] /\ overrides \in [Capability -> 0..NoOverride]
      BY <3>1 DEF Init, NoOverride
    <3>3. answer \in [Worker -> AnswerType]
      BY NoReply DEF Init
    <3> QED  BY IdleType, <3>2, <3>3 DEF Init, TypeOK, AnswerType
  <2>2. \A w \in Worker : ThreadInv(w)
    BY NoReply DEF Init, ThreadInv, Provenance, Asking, SnapshotHolds, NoSnapshot
  <2>3. SpentOnce
    BY DEF Init, SpentOnce, Unspent
  <2> QED  BY <2>1, <2>2, <2>3 DEF IInv
<1> QED  BY <1>1, NextKeeps, PTL DEF Spec

-----------------------------------------------------------------------------
(* What the invariant gives                                                *)

\* Allow-once is used once per decision, whatever the interleaving of requests.
THEOREM AllowOnceIsOneShot == Spec => []OneShot
<1>1. IInv => OneShot
  <2> SUFFICES ASSUME IInv, NEW i \in Request
               PROVE  released[i] <= granted[i]
    BY DEF OneShot
  <2>1. released[i] \in Nat /\ granted[i] \in Nat
    BY DEF IInv, TypeOK
  <2>2. released[i] + Unspent(i) <= granted[i] /\ Unspent(i) \in {0, 1}
    BY DEF IInv, SpentOnce, Unspent
  <2> QED  BY <2>1, <2>2
<1> QED  BY <1>1, ResolverInvariance, PTL

\* What is visible or selected in an answer came from resolve on the snapshot.
LEMMA OfferedBySnapshot ==
  ASSUME IInv, NEW w \in Worker,
         NEW k \in answer[w].visible \cup ({answer[w].selected} \ {None})
  PROVE  LET c == ranked[w][k]
         IN /\ k \in DOMAIN ranked[w] /\ ~watched[w]
            /\ \/ effective_category(c, snapshot[w].overrides) <= MaxAuto
               \/ c.tool \in snapshot[w].exceptions
               \/ c.tool = req[w].tool /\ answer[w].once
            /\ dominated(ranked[w], k) =>
                 c.tool = req[w].tool /\ (answer[w].once \/ req[w].tool \in snapshot[w].exceptions)
<1> DEFINE once == IF answer[w].once THEN {req[w].tool} ELSE {}
           r == resolve(ranked[w], req[w].tool, MaxAuto, once,
                        snapshot[w].exceptions, snapshot[w].overrides)
<1>0. /\ ranked[w] \in Candidates /\ req[w].tool \in Tool \cup {None}
      /\ answer[w].once \in BOOLEAN /\ once \subseteq {req[w].tool}
  BY DEF IInv, TypeOK, Candidates
<1>1. ~watched[w] /\ answer[w].visible = r.visible /\ answer[w].selected = r.selected
  <2>1. Provenance(w)
    BY DEF IInv, ThreadInv
  <2> QED  BY <2>1, <1>0 DEF Provenance, Resolved
<1>2. r.visible \subseteq DOMAIN ranked[w] /\ r.selected \in r.visible \cup {None}
  <2> HIDE DEF once
  <2> QED  BY <1>0, ResolveType
<1>3. k \in r.visible
  <2> HIDE DEF r
  <2> QED  BY <1>1, <1>2
<1>4. /\ \/ effective_category(ranked[w][k], snapshot[w].overrides) <= MaxAuto
         \/ ranked[w][k].tool \in snapshot[w].exceptions
         \/ ranked[w][k].tool = req[w].tool /\ req[w].tool \in once
      /\ dominated(ranked[w], k) =>
           ranked[w][k].tool = req[w].tool /\ req[w].tool \in snapshot[w].exceptions \cup once
  <2> HIDE DEF once
  <2> QED  BY <1>0, <1>3, ResolveAuthority
<1> QED
  <2> HIDE DEF r
  <2> QED  BY <1>1, <1>2, <1>3, <1>4

\* Nothing above the ceiling is offered without a decision that is still in the store.
THEOREM OffersAreAuthorised == Spec => []OfferedIsAuthorised
<1>1. IInv => OfferedIsAuthorised
  <2> SUFFICES ASSUME IInv, NEW w \in Worker,
                      NEW k \in answer[w].visible \cup ({answer[w].selected} \ {None})
               PROVE  Authorised(w, k)
    BY DEF OfferedIsAuthorised
  <2> DEFINE c == ranked[w][k]
  <2>1. /\ k \in DOMAIN ranked[w]
        /\ \/ effective_category(c, snapshot[w].overrides) <= MaxAuto
           \/ c.tool \in snapshot[w].exceptions
           \/ c.tool = req[w].tool /\ answer[w].once
    BY OfferedBySnapshot
  <2>2. SnapshotHolds(w)
    BY DEF IInv, ThreadInv
  <2>3. c.capability \in Capability
    BY <2>1, CandidateType DEF IInv, TypeOK, Candidates
  <2>4. effective_category(c, snapshot[w].overrides) <= MaxAuto
          => category_for_score(c.score) <= MaxAuto \/ overrides[c.capability] # NoOverride
    BY <2>2, <2>3 DEF effective_category, SnapshotHolds
  <2> QED  BY <2>1, <2>2, <2>4 DEF Authorised, SnapshotHolds
<1> QED  BY <1>1, ResolverInvariance, PTL

\* A dominated tool is visible only by an operator's decision about that very tool.
THEOREM OffersAreLeastPrivileged == Spec => []LeastPrivilege
<1>1. IInv => LeastPrivilege
  <2> SUFFICES ASSUME IInv, NEW w \in Worker, NEW k \in answer[w].visible, dominated(ranked[w], k)
               PROVE  ranked[w][k].tool = req[w].tool
                        /\ (answer[w].once \/ req[w].tool \in exceptions)
    BY DEF LeastPrivilege
  <2>1. ranked[w][k].tool = req[w].tool
          /\ (answer[w].once \/ req[w].tool \in snapshot[w].exceptions)
    BY OfferedBySnapshot
  <2> QED  BY <2>1 DEF IInv, ThreadInv, SnapshotHolds
<1> QED  BY <1>1, ResolverInvariance, PTL

\* Filtering leaves an agent with something whenever a candidate is within the ceiling.
THEOREM AgentsGetSomething == Spec => []SomethingUsable
<1>1. IInv => SomethingUsable
  <2> SUFFICES ASSUME IInv, NEW w \in Worker,
                      answer[w].status \in {"resolved", "approval_required"},
                      overrides = NoSnapshot.overrides,
                      NEW p \in DOMAIN ranked[w],
                      category_for_score(ranked[w][p].score) <= MaxAuto
               PROVE  /\ answer[w].visible # {}
                      /\ answer[w].status = "resolved" => answer[w].selected # None
    BY DEF SomethingUsable
  <2> DEFINE none == [c \in Capability |-> NoOverride]
             exc == snapshot[w].exceptions
             first == resolve(ranked[w], req[w].tool, MaxAuto, {}, exc, none)
             second == resolve(ranked[w], req[w].tool, MaxAuto, {req[w].tool}, exc, none)
  <2>0. ranked[w] \in Candidates /\ req[w].tool \in Tool \cup {None}
    BY DEF IInv, TypeOK, Candidates
  <2>1. snapshot[w].overrides = none
    <3>1. snapshot[w].overrides \in [Capability -> 0..NoOverride]
      BY DEF IInv, TypeOK
    <3>2. overrides = none
      BY DEF NoSnapshot
    <3>3. \A c \in Capability : snapshot[w].overrides[c] = NoOverride
      BY <3>2 DEF IInv, ThreadInv, SnapshotHolds
    <3> QED  BY <3>1, <3>3
  <2>2. \/ /\ answer[w].visible = first.visible /\ answer[w].selected = first.selected
           /\ answer[w].status = "resolved" => first.approval = None
        \/ /\ answer[w].visible = second.visible /\ answer[w].selected = second.selected
           /\ first.approval # None
    <3>1. Provenance(w)
      BY DEF IInv, ThreadInv
    <3> QED  BY <3>1, <2>1 DEF Provenance, Resolved
  <2>3. first.visible # {} /\ second.visible # {}
    BY <2>0, ResolveLeavesSomething
  <2>4. /\ first.approval = None /\ first.visible # {} => first.selected # None
        /\ first.approval # None => second.selected # None
    BY <2>0, ResolveSelects
  <2> QED
    <3> HIDE DEF first, second
    <3> QED  BY <2>2, <2>3, <2>4
<1> QED  BY <1>1, ResolverInvariance, PTL

\* A request the emergency stop covers from beginning to end gets nothing.
THEOREM StoppedGetNothing == Spec => []StopRefusesAll
<1>1. IInv => StopRefusesAll
  BY DEF IInv, ThreadInv, Provenance, StopRefusesAll
<1> QED  BY <1>1, ResolverInvariance, PTL

=============================================================================
