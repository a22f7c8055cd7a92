----------------------- MODULE IntentActionGateProofs -----------------------
(***************************************************************************)
(* Proofs about IntentActionGate for every value of its constants.  The    *)
(* type of `todo` is the result of a fold over a response and stays with   *)
(* TLC; nothing below depends on it.                                       *)
(***************************************************************************)
EXTENDS IntentActionGate, TLAPS, WellFoundedInduction

-----------------------------------------------------------------------------
(* Sequences of anything                                                   *)

\* A sequence is one over the set of its own elements.
LEMMA OverItsElements ==
  ASSUME NEW q, Sequence(q)
  PROVE  q \in Seq({q[i] : i \in 1..Len(q)})
  <1> DEFINE S == {q[i] : i \in 1..Len(q)}
  <1>1. \A i \in 1..Len(q) : q[i] \in S
    OBVIOUS
  <1> HIDE DEF S
  <1>2. [i \in 1..Len(q) |-> q[i]] \in Seq(S)
    BY <1>1 DEF Sequence
  <1> QED BY <1>2 DEF Sequence, S

LEMMA Appended ==
  ASSUME NEW q, NEW x, Sequence(q)
  PROVE  LET e == Append(q, x)
         IN /\ Sequence(e) /\ Len(e) = Len(q) + 1
            /\ \A i \in 1..Len(q) : e[i] = q[i]
            /\ e[Len(q) + 1] = x
  <1> DEFINE S == {q[i] : i \in 1..Len(q)}
  <1>1. q \in Seq(S \cup {x})
    <2>1. q \in Seq(S)
      BY OverItsElements
    <2> HIDE DEF S
    <2> QED BY <2>1
  <1> HIDE DEF S
  <1>2. x \in S \cup {x}
    OBVIOUS
  <1>3. PICK T : q \in Seq(T) /\ x \in T
    BY <1>1, <1>2
  <1> DEFINE e == Append(q, x)
  <1>4. e \in Seq(T) /\ Len(e) = Len(q) + 1 /\ Len(q) \in Nat
    BY <1>3
  <1>5. /\ \A i \in 1..Len(q) : e[i] = q[i]
        /\ e[Len(q) + 1] = x
    BY <1>3
  <1> HIDE DEF e
  <1>6. Sequence(e)
    BY <1>4 DEF Sequence
  <1> QED BY <1>4, <1>5, <1>6 DEF e

LEMMA Shortened ==
  ASSUME NEW q, Sequence(q), Len(q) > 0
  PROVE  LET e == Tail(q)
         IN /\ Sequence(e) /\ Len(e) = Len(q) - 1
            /\ \A i \in 1..Len(e) : e[i] = q[i + 1]
  <1>1. PICK T : q \in Seq(T)
    BY OverItsElements
  <1> DEFINE e == Tail(q)
  <1>2. e \in Seq(T) /\ Len(e) = Len(q) - 1 /\ Len(q) \in Nat
    BY <1>1
  <1>3. \A i \in 1..Len(e) : e[i] = q[i + 1]
    BY <1>1, <1>2
  <1> HIDE DEF e
  <1>4. Sequence(e)
    BY <1>2 DEF Sequence
  <1> QED BY <1>2, <1>3, <1>4 DEF e

\* The least-number principle, and with it the latest of some positions.
LEMMA LeastOf ==
  ASSUME NEW T, T \subseteq Nat, T # {}
  PROVE  \E m \in T : \A y \in T : m <= y
  <1>1. PICK m \in T : \A y \in T : ~ (<<y, m>> \in OpToRel(<, Nat))
    BY NatLessThanWellFounded, WFMin, Zenon
  <1>2. \A y \in T : ~ (y < m)
    BY <1>1 DEF OpToRel
  <1> QED BY <1>2, SMT

LEMMA LatestThere ==
  ASSUME NEW n \in Nat, NEW S \in SUBSET (1..n), S # {}
  PROVE  Max(S) \in S /\ \A i \in S : i <= Max(S)
  <1> DEFINE T == {n - i : i \in S}
  <1>1. \A i \in S : i \in Nat /\ n - i \in Nat /\ n - i \in T
    OBVIOUS
  <1>2. T \subseteq Nat /\ T # {}
    BY <1>1
  <1>3. \A y \in T : \E i \in S : y = n - i
    OBVIOUS
  <1> HIDE DEF T
  <1>4. PICK m \in T : \A y \in T : m <= y
    BY <1>2, LeastOf
  <1>5. PICK k \in S : m = n - k
    BY <1>3
  <1>6. \A i \in S : k >= i
    BY <1>1, <1>4, <1>5
  <1>7. Max(S) \in S /\ \A i \in S : Max(S) >= i
    BY <1>6 DEF Max
  <1> QED BY <1>1, <1>7

-----------------------------------------------------------------------------
(* The window                                                              *)

\* remember keeps a session's deque a window on its proposals.
LEMMA Remembered ==
  ASSUME NEW p, NEW all, NEW x, Window(p, all)
  PROVE  LET q == Append(p, x)
         IN Window(IF Len(q) > MaxLen THEN Tail(q) ELSE q, Append(all, x))
  <1> DEFINE q == Append(p, x)
             a == Append(all, x)
             w == Tail(q)
  <1>1. MaxLen \in Nat /\ MaxLen > 0
    BY GateAssumption
  <1>2. /\ Len(p) \in Nat /\ Len(all) \in Nat /\ Len(p) <= Len(all) /\ Len(p) <= MaxLen
        /\ Len(p) < MaxLen => Len(p) = Len(all)
        /\ \A i \in 1..Len(p) : p[i] = all[Len(all) - Len(p) + i]
        /\ Sequence(p) /\ Sequence(all)
    BY DEF Window, Sequence
  <1>3. /\ Sequence(q) /\ Len(q) = Len(p) + 1
        /\ \A i \in 1..Len(p) : q[i] = p[i]
        /\ q[Len(p) + 1] = x
    BY <1>2, Appended
  <1>4. /\ Sequence(a) /\ Len(a) = Len(all) + 1
        /\ \A i \in 1..Len(all) : a[i] = all[i]
        /\ a[Len(all) + 1] = x
    BY <1>2, Appended
  <1> HIDE DEF q, a
  <1>5. \A i \in 1..Len(q) : q[i] = a[Len(a) - Len(q) + i]
    <2> SUFFICES ASSUME NEW i \in 1..Len(q) PROVE q[i] = a[Len(a) - Len(q) + i]
      OBVIOUS
    <2>1. CASE i = Len(p) + 1
      <3>1. Len(a) - Len(q) + i = Len(all) + 1
        BY <1>2, <1>3, <1>4, <2>1
      <3> QED BY <1>3, <1>4, <2>1, <3>1
    <2>2. CASE i \in 1..Len(p)
      <3>1. Len(a) - Len(q) + i = Len(all) - Len(p) + i
        BY <1>2, <1>3, <1>4, <2>2
      <3>2. Len(all) - Len(p) + i \in 1..Len(all)
        BY <1>2, <2>2
      <3> QED BY <1>2, <1>3, <1>4, <2>2, <3>1, <3>2
    <2> QED BY <1>2, <1>3, <2>1, <2>2
  <1>6. CASE Len(q) > MaxLen
    <2>1. Sequence(w) /\ Len(w) = Len(q) - 1 /\ \A i \in 1..Len(w) : w[i] = q[i + 1]
      BY <1>2, <1>3, Shortened
    <2> HIDE DEF w
    <2>2. ASSUME NEW i \in 1..Len(w) PROVE w[i] = a[Len(a) - Len(w) + i]
      <3>1. i + 1 \in 1..Len(q) /\ Len(a) - Len(q) + (i + 1) = Len(a) - Len(w) + i
        BY <1>2, <1>3, <1>4, <2>1
      <3> QED BY <1>5, <2>1, <3>1
    <2>3. Len(w) <= Len(a) /\ Len(w) <= MaxLen /\ ~(Len(w) < MaxLen)
      BY <1>1, <1>2, <1>3, <1>4, <1>6, <2>1
    <2>4. Window(w, a)
      BY <1>4, <2>1, <2>2, <2>3 DEF Window
    <2> QED BY <1>6, <2>4 DEF q, a, w
  <1>7. CASE ~(Len(q) > MaxLen)
    <2>1. Len(q) <= Len(a) /\ Len(q) <= MaxLen /\ (Len(q) < MaxLen => Len(q) = Len(a))
      BY <1>1, <1>2, <1>3, <1>4, <1>7
    <2>2. Window(q, a)
      BY <1>3, <1>4, <1>5, <2>1 DEF Window
    <2> QED BY <1>7, <2>2 DEF q, a
  <1> QED BY <1>6, <1>7

LEMMA WindowStep ==
  ASSUME GInv, [Next]_vars
  PROVE  GInv'
  <1>1. ASSUME NEW r \in Run, remember(r)
        PROVE  GInv'
    <2> DEFINE s == session_id(r)
               x == Head(todo[r])
               q == Append(proposals[s], x)
               w == IF Len(q) > MaxLen THEN Tail(q) ELSE q
               a == Append(log[s], x)
    <2>1. s \in Session
      BY DEF Session
    <2>2. proposals' = [proposals EXCEPT ![s] = w] /\ log' = [log EXCEPT ![s] = a]
      BY <1>1 DEF remember
    <2>3. Window(w, a)
      <3>1. Window(proposals[s], log[s])
        BY <2>1 DEF GInv
      <3> QED BY <3>1, Remembered
    <2> HIDE DEF s, w, a
    <2>4. /\ proposals'[s] = w /\ log'[s] = a
          /\ \A t \in Session \ {s} : proposals'[t] = proposals[t] /\ log'[t] = log[t]
          /\ proposals' = [t \in Session |-> proposals'[t]]
          /\ log' = [t \in Session |-> log'[t]]
      BY <2>1, <2>2 DEF GInv
    <2> QED BY <2>3, <2>4 DEF GInv
  <1>2. CASE UNCHANGED <<proposals, log>>
    BY <1>2 DEF GInv
  <1>3. (\E r \in Run : remember(r)) \/ UNCHANGED <<proposals, log>>
    BY DEF Next, vars, on_pre_api_request, on_post_api_request, on_pre_tool_call,
      on_post_tool_call
  <1> QED BY <1>1, <1>2, <1>3

-----------------------------------------------------------------------------
(* What the hook finds in the window                                       *)

\* The recent proposals of the log are the deque's, in the same order.
LEMMA RecentInWindow ==
  ASSUME GInv, NEW s \in Session
  PROVE  LET d == Len(log[s]) - Len(proposals[s])
         IN /\ d \in Nat /\ Len(proposals[s]) \in Nat
            /\ DOMAIN proposals[s] = 1..Len(proposals[s])
            /\ \A i \in Recent(s) : i \in Nat /\ i - d \in DOMAIN proposals[s]
                                    /\ proposals[s][i - d] = log[s][i]
            /\ \A j \in DOMAIN proposals[s] :
                 /\ j + d \in Recent(s) /\ log[s][j + d] = proposals[s][j]
  <1> DEFINE p == proposals[s]
             a == log[s]
             d == Len(a) - Len(p)
  <1>0. MaxLen \in Nat /\ MaxLen > 0
    BY GateAssumption
  <1>1. /\ Len(p) \in Nat /\ Len(a) \in Nat /\ Len(p) <= Len(a) /\ Len(p) <= MaxLen
        /\ Len(p) < MaxLen => Len(p) = Len(a)
        /\ \A i \in 1..Len(p) : p[i] = a[Len(a) - Len(p) + i]
    BY DEF GInv, Window, Sequence
  <1>2. DOMAIN p = 1..Len(p) /\ DOMAIN a = 1..Len(a)
    <2>1. p = [i \in 1..Len(p) |-> p[i]] /\ a = [i \in 1..Len(a) |-> a[i]]
      BY DEF GInv, Window, Sequence
    <2> HIDE DEF p, a
    <2> QED BY <2>1
  <1>3. Recent(s) = {i \in 1..Len(a) : i > Len(a) - MaxLen}
    BY <1>2 DEF Recent
  <1> HIDE DEF p, a
  <1>4. ASSUME NEW i \in Recent(s)
        PROVE  i \in Nat /\ i - d \in 1..Len(p) /\ p[i - d] = a[i]
    <2>1. i \in 1..Len(a) /\ i > Len(a) - MaxLen
      BY <1>3
    <2>2. i \in Nat /\ i - d \in 1..Len(p) /\ Len(a) - Len(p) + (i - d) = i
      BY <1>0, <1>1, <2>1
    <2> QED BY <1>1, <2>2
  <1>5. ASSUME NEW j \in 1..Len(p)
        PROVE  j + d \in Recent(s) /\ a[j + d] = p[j]
    <2>1. j + d \in 1..Len(a) /\ j + d > Len(a) - MaxLen /\ j + d = Len(a) - Len(p) + j
      BY <1>0, <1>1
    <2> QED BY <1>1, <1>3, <2>1
  <1>6. d \in Nat
    BY <1>1
  <1> QED BY <1>1, <1>2, <1>4, <1>5, <1>6 DEF p, a

\* match_proposal finds the latest proposal of the first kind there is.
Match(known, n, c, m) ==
  LET HasId(i) == c.id # NoId /\ known[i].id = c.id
      Same(i)  == known[i].name = c.name /\ known[i].args = c.args
  IN \/ \E i \in 1..n : HasId(i) /\ m = <<known[i]>> /\ \A j \in 1..n : HasId(j) => j <= i
     \/ /\ \A i \in 1..n : ~HasId(i)
        /\ \/ \E i \in 1..n : Same(i) /\ m = <<known[i]>>
           \/ /\ \A i \in 1..n : ~Same(i)
              /\ m = <<>> \/ \E i \in 1..n : known[i].name = c.name /\ m = <<known[i]>>

LEMMA MatchFound ==
  ASSUME NEW n \in Nat, NEW known, DOMAIN known = 1..n, NEW c
  PROVE  Match(known, n, c, match_proposal(known, c))
  <1> DEFINE ById   == {i \in 1..n : c.id # NoId /\ known[i].id = c.id}
             Same   == {i \in 1..n : known[i].name = c.name /\ known[i].args = c.args}
             ByName == {i \in 1..n : known[i].name = c.name}
             m      == match_proposal(known, c)
             found  == IF ById # {} THEN ById ELSE IF Same # {} THEN Same ELSE ByName
  <1>1. m = IF found = {} THEN <<>> ELSE <<known[Max(found)]>>
    BY DEF match_proposal
  <1>2. ById \in SUBSET (1..n) /\ Same \in SUBSET (1..n) /\ ByName \in SUBSET (1..n)
    OBVIOUS
  <1> HIDE DEF ById, Same, ByName, m
  <1>3. found \in SUBSET (1..n)
    BY <1>2
  <1>4. found # {} => Max(found) \in found /\ \A i \in found : i <= Max(found)
    BY <1>3, LatestThere
  <1>5. \/ \E i \in ById : m = <<known[i]>> /\ \A j \in ById : j <= i
        \/ ById = {} /\ \E i \in Same : m = <<known[i]>>
        \/ ById = {} /\ Same = {} /\ \E i \in ByName : m = <<known[i]>>
        \/ ById = {} /\ Same = {} /\ m = <<>>
    <2>1. CASE ById # {}
      BY <1>1, <1>4, <2>1
    <2>2. CASE ById = {} /\ Same # {}
      BY <1>1, <1>4, <2>2
    <2>3. CASE ById = {} /\ Same = {}
      BY <1>1, <1>4, <2>3
    <2> QED BY <2>1, <2>2, <2>3
  <1>6. /\ \A i \in 1..n : i \in ById <=> c.id # NoId /\ known[i].id = c.id
        /\ \A i \in 1..n : i \in Same <=> known[i].name = c.name /\ known[i].args = c.args
        /\ \A i \in 1..n : i \in ByName <=> known[i].name = c.name
    BY DEF ById, Same, ByName
  <1>7. CASE \E i \in ById : m = <<known[i]>> /\ \A j \in ById : j <= i
    BY <1>2, <1>6, <1>7 DEF Match, m
  <1>8. CASE ById = {} /\ \E i \in Same : m = <<known[i]>>
    BY <1>2, <1>6, <1>8 DEF Match, m
  <1>9. CASE ById = {} /\ Same = {} /\ (m = <<>> \/ \E i \in ByName : m = <<known[i]>>)
    BY <1>2, <1>6, <1>9 DEF Match, m
  <1> QED BY <1>5, <1>7, <1>8, <1>9

\* A call with a recent proposal of its own is matched with equal arguments.
LEMMA ProposedMatches ==
  ASSUME GInv, NEW s \in Session, NEW c, NEW i \in Recent(s),
         log[s][i].name = c.name, log[s][i].args = c.args,
         c.id # NoId => /\ log[s][i].id = c.id
                        /\ \A j \in Recent(s) : j > i => log[s][j].id # c.id
  PROVE  ~mismatch(match_proposal(proposals[s], c), c)
  <1> DEFINE p == proposals[s]
             n == Len(p)
             d == Len(log[s]) - Len(p)
             m == match_proposal(p, c)
  <1>1. /\ d \in Nat /\ n \in Nat /\ DOMAIN p = 1..n
        /\ i \in Nat /\ i - d \in 1..n /\ p[i - d] = log[s][i]
        /\ \A j \in 1..n : j + d \in Recent(s) /\ log[s][j + d] = p[j]
    BY RecentInWindow
  <1>2. \/ \E k \in 1..n : /\ c.id # NoId /\ p[k].id = c.id /\ m = <<p[k]>>
                           /\ \A j \in 1..n : p[j].id = c.id => j <= k
        \/ /\ \A j \in 1..n : ~(c.id # NoId /\ p[j].id = c.id)
           /\ \E k \in 1..n : p[k].args = c.args /\ m = <<p[k]>>
        \/ \A j \in 1..n : ~(p[j].name = c.name /\ p[j].args = c.args)
    <2>1. Match(p, n, c, m)
      BY <1>1, MatchFound
    <2> HIDE DEF p, n, d, m
    <2> QED BY <2>1 DEF Match
  <1> HIDE DEF p, n, d, m
  <1>3. PICK k \in 1..n : m = <<p[k]>> /\ p[k].args = c.args
    <2>1. ASSUME NEW k \in 1..n, c.id # NoId, p[k].id = c.id,
                 \A j \in 1..n : p[j].id = c.id => j <= k
          PROVE  p[k].args = c.args
      <3>1. i - d <= k /\ p[i - d].args = c.args
        BY <1>1, <2>1
      <3>2. ~(k + d > i)
        BY <1>1, <2>1
      <3>3. k = i - d
        BY <1>1, <3>1, <3>2
      <3> QED BY <3>1, <3>3
    <2> QED BY <1>1, <1>2, <2>1
  <1>4. ~mismatch(m, c)
    BY <1>3 DEF mismatch
  <1> QED BY <1>4 DEF m, p

\* A call that is not taken for a changed one has the arguments of the latest recent
\* proposal with its id, or, when there is none, of one of its own tool.
LEMMA MatchedIsProposed ==
  ASSUME GInv, NEW s \in Session, NEW c, ~mismatch(match_proposal(proposals[s], c), c)
  PROVE  IF OfId(s, c) # {}
         THEN \E i \in OfId(s, c) : log[s][i].args = c.args /\ \A j \in OfId(s, c) : j <= i
         ELSE \E i \in Recent(s) : log[s][i].name = c.name /\ log[s][i].args = c.args
  <1> DEFINE p == proposals[s]
             n == Len(p)
             d == Len(log[s]) - Len(p)
             m == match_proposal(p, c)
  <1>1. /\ n \in Nat /\ d \in Nat /\ DOMAIN p = 1..n
        /\ \A i \in Recent(s) : i \in Nat /\ i - d \in 1..n /\ p[i - d] = log[s][i]
        /\ \A j \in 1..n : j + d \in Recent(s) /\ log[s][j + d] = p[j]
    BY RecentInWindow
  <1>2. m # <<>> /\ m[1].args = c.args
    BY DEF mismatch
  <1>3. \/ \E k \in 1..n : /\ c.id # NoId /\ p[k].id = c.id /\ m = <<p[k]>>
                           /\ \A j \in 1..n : p[j].id = c.id => j <= k
        \/ /\ \A j \in 1..n : ~(c.id # NoId /\ p[j].id = c.id)
           /\ \E k \in 1..n : p[k].name = c.name /\ m = <<p[k]>>
        \/ m = <<>>
    <2>1. Match(p, n, c, m)
      BY <1>1, MatchFound
    <2> HIDE DEF p, n, d, m
    <2> QED BY <2>1 DEF Match
  <1> HIDE DEF p, n, d, m
  <1>4. ASSUME NEW k \in 1..n, c.id # NoId, p[k].id = c.id, p[k].args = c.args,
               \A j \in 1..n : p[j].id = c.id => j <= k
        PROVE  \E i \in OfId(s, c) : log[s][i].args = c.args /\ \A j \in OfId(s, c) : j <= i
    <2>0. k + d \in Recent(s) /\ log[s][k + d] = p[k]
      BY <1>1
    <2>1. k + d \in OfId(s, c) /\ log[s][k + d].args = c.args
      BY <1>4, <2>0 DEF OfId
    <2>2. ASSUME NEW j \in OfId(s, c) PROVE j <= k + d
      <3>1. j \in Recent(s) /\ log[s][j].id = c.id
        BY DEF OfId
      <3>2. j \in Nat /\ j - d \in 1..n /\ p[j - d].id = c.id
        BY <1>1, <3>1
      <3>3. j - d <= k
        BY <1>4, <3>2
      <3> QED BY <1>1, <3>2, <3>3
    <2> QED BY <2>1, <2>2
  <1>5. ASSUME NEW k \in 1..n, p[k].name = c.name, p[k].args = c.args
        PROVE  \E i \in Recent(s) : log[s][i].name = c.name /\ log[s][i].args = c.args
    <2>1. k + d \in Recent(s) /\ log[s][k + d] = p[k]
      BY <1>1
    <2> QED BY <1>5, <2>1
  <1>6. CASE \E k \in 1..n : /\ c.id # NoId /\ p[k].id = c.id /\ m = <<p[k]>>
                            /\ \A j \in 1..n : p[j].id = c.id => j <= k
    BY <1>2, <1>4, <1>6
  <1>7. CASE /\ \A j \in 1..n : ~(c.id # NoId /\ p[j].id = c.id)
             /\ \E k \in 1..n : p[k].name = c.name /\ m = <<p[k]>>
    <2>1. OfId(s, c) = {}
      <3> SUFFICES ASSUME NEW i \in Recent(s), c.id # NoId, log[s][i].id = c.id PROVE FALSE
        BY DEF OfId
      <3>1. i - d \in 1..n /\ p[i - d].id = c.id
        BY <1>1
      <3> QED BY <1>7, <3>1
    <2> QED BY <1>2, <1>5, <1>7, <2>1
  <1> QED BY <1>2, <1>3, <1>6, <1>7

\* What every step but a stutter leaves as the last event.
LEMMA LastEvent ==
  ASSUME [Next]_vars
  PROVE  \/ \E r \in Run, c \in Call : on_pre_tool_call(r, c)
         \/ event'.type # "action.requested"
         \/ event' = event /\ log' = log
  <1>1. ASSUME NEW r \in Run, on_pre_api_request(r) \/ on_post_tool_call(r) \/ remember(r)
        PROVE  event'.type # "action.requested"
    BY <1>1 DEF on_pre_api_request, on_post_tool_call, remember, Emit
  <1>2. ASSUME NEW r \in Run, NEW response, on_post_api_request(r, response)
        PROVE  event'.type # "action.requested"
    BY <1>2 DEF on_post_api_request, Emit
  <1>3. CASE UNCHANGED vars
    BY <1>3 DEF vars
  <1>4. CASE Next
    <2>1. PICK r \in Run :
            \/ on_pre_api_request(r) \/ on_post_tool_call(r) \/ remember(r)
            \/ \E response : on_post_api_request(r, response)
            \/ \E c \in Call : on_pre_tool_call(r, c)
      BY <1>4 DEF Next
    <2> QED BY <1>1, <1>2, <2>1
  <1> QED BY <1>3, <1>4

\* The event of on_pre_tool_call.
LEMMA RequestedEvent ==
  ASSUME NEW r, NEW c, on_pre_tool_call(r, c)
  PROVE  LET differs == mismatch(match_proposal(proposals[session_id(r)], c), c)
         IN /\ log' = log /\ event'.session = session_id(r) /\ event'.call = c
            /\ event'.mismatch = differs
            /\ event'.risk = AtLeast(classify_action(c.name, c.args), IF differs THEN HIGH ELSE LOW)
  <1> DEFINE differs == mismatch(match_proposal(proposals[session_id(r)], c), c)
             risk == AtLeast(classify_action(c.name, c.args), IF differs THEN HIGH ELSE LOW)
             decision == IF Mode = "enforce" /\ risk >= BlockLevel THEN "DENY"
                         ELSE IF Mode = "enforce" THEN "ALLOW" ELSE "ALLOW_SHADOW"
  <1>1. /\ log' = log
        /\ event' = [type |-> "action.requested", session |-> session_id(r), call |-> c,
                     mismatch |-> differs, risk |-> risk, decision |-> decision]
    BY DEF on_pre_tool_call
  <1> HIDE DEF differs, risk, decision
  <1>2. /\ event'.session = session_id(r) /\ event'.call = c
        /\ event'.mismatch = differs /\ event'.risk = risk
    BY <1>1
  <1> QED BY <1>1, <1>2 DEF differs, risk

-----------------------------------------------------------------------------
(* The theorems                                                            *)

\* Whatever responses concurrent runs are half way through remembering, PROPOSALS holds
\* the last MaxLen proposals of each session and no others.
THEOREM WindowInvariance == Spec => []GInv
  <1>1. Init => GInv
    <2> SUFFICES ASSUME Init PROVE GInv
      OBVIOUS
    <2>1. \A s \in Session : proposals[s] = <<>> /\ log[s] = <<>>
      BY DEF Init
    <2>2. Window(<<>>, <<>>)
      BY GateAssumption DEF Window, Sequence
    <2> QED BY <2>1, <2>2 DEF Init, GInv
  <1>2. GInv /\ [Next]_vars => GInv'
    BY WindowStep
  <1> QED BY <1>1, <1>2, PTL DEF Spec

\* on_pre_tool_call never raises the risk of a call that Hermes makes as the model
\* proposed it within the deque's length, for any number of runs and sessions.
THEOREM ProposedCallPasses == Spec => []ProposedPasses
  <1>1. Init => ProposedPasses
    BY DEF Init, ProposedPasses
  <1>2. ASSUME GInv, ProposedPasses, [Next]_vars
        PROVE  ProposedPasses'
    <2>1. ASSUME NEW r \in Run, NEW c \in Call, on_pre_tool_call(r, c)
          PROVE  ProposedPasses'
      <3> DEFINE s == session_id(r)
      <3>1. /\ log' = log /\ event'.session = s /\ event'.call = c
            /\ event'.mismatch = mismatch(match_proposal(proposals[s], c), c)
        BY <2>1, RequestedEvent
      <3>2. s \in Session
        BY DEF Session
      <3> HIDE DEF s
      <3>3. ASSUME NEW i \in Recent(s),
                   log[s][i].name = c.name, log[s][i].args = c.args,
                   c.id # NoId => /\ log[s][i].id = c.id
                                  /\ \A j \in Recent(s) : j > i => log[s][j].id # c.id
            PROVE  ~event'.mismatch
        BY <1>2, <3>1, <3>2, <3>3, ProposedMatches
      <3>4. Recent(s)' = Recent(s)
        BY <3>1 DEF Recent
      <3> QED BY <3>1, <3>3, <3>4 DEF ProposedPasses
    <2>2. CASE event'.type # "action.requested"
      BY <2>2 DEF ProposedPasses
    <2>3. CASE event' = event /\ log' = log
      BY <1>2, <2>3 DEF ProposedPasses, Recent
    <2> QED BY <1>2, <2>1, <2>2, <2>3, LastEvent
  <1> QED BY <1>1, <1>2, WindowInvariance, PTL DEF Spec

\* INTENT_ACTION_GATE_MVP.md, "changed arguments": on_pre_tool_call lets a call pass below
\* high risk only with the arguments of the latest recent proposal that has its id, or,
\* if none has, with the name and the arguments of a recent proposal of its session.
THEOREM ChangedIsRaised == Spec => []ChangedArgumentsRaised
  <1>1. Init => ChangedArgumentsRaised
    BY DEF Init, ChangedArgumentsRaised
  <1>2. ASSUME GInv, ChangedArgumentsRaised, [Next]_vars
        PROVE  ChangedArgumentsRaised'
    <2>1. ASSUME NEW r \in Run, NEW c \in Call, on_pre_tool_call(r, c)
          PROVE  ChangedArgumentsRaised'
      <3> DEFINE s == session_id(r)
                 differs == mismatch(match_proposal(proposals[s], c), c)
      <3>1. /\ log' = log /\ event'.session = s /\ event'.call = c
            /\ event'.risk = AtLeast(classify_action(c.name, c.args),
                                     IF differs THEN HIGH ELSE LOW)
        BY <2>1, RequestedEvent
      <3>2. s \in Session
        BY DEF Session
      <3>3. event'.risk < HIGH => ~differs
        <4> HIDE DEF differs
        <4> QED BY <3>1 DEF AtLeast, HIGH
      <3>4. event'.risk < HIGH =>
              IF OfId(s, c) # {}
              THEN \E i \in OfId(s, c) : log[s][i].args = c.args /\ \A j \in OfId(s, c) : j <= i
              ELSE \E i \in Recent(s) : log[s][i].name = c.name /\ log[s][i].args = c.args
        BY <1>2, <3>2, <3>3, MatchedIsProposed
      <3> HIDE DEF s, differs
      <3>5. /\ Recent(s)' = Recent(s) /\ OfId(s, c)' = OfId(s, c)
            /\ OfId(event.session, event.call)' = OfId(s, c)
        BY <3>1 DEF Recent, OfId
      <3> QED BY <3>1, <3>4, <3>5 DEF ChangedArgumentsRaised
    <2>2. CASE event'.type # "action.requested"
      BY <2>2 DEF ChangedArgumentsRaised
    <2>3. CASE event' = event /\ log' = log
      BY <1>2, <2>3 DEF ChangedArgumentsRaised, Recent, OfId
    <2> QED BY <1>2, <2>1, <2>2, <2>3, LastEvent
  <1> QED BY <1>1, <1>2, WindowInvariance, PTL DEF Spec
=============================================================================
