------------------------- MODULE TokenBrokerProofs -------------------------
(***************************************************************************)
(* The gateway with its token broker, for any number of threads, tools and *)
(* grants, any margin, cache time and token lifetimes: it implements the   *)
(* gateway whose Mint is one step, so that what is proved of that one      *)
(* holds here too; a call gets a token of its own permissions, and what is *)
(* reused is fresh.                                                        *)
(***************************************************************************)
EXTENDS TokenBroker, DynamicAuthorityProofs

-----------------------------------------------------------------------------
(* The refinement                                                          *)

\* Every step of the broker is a step of the gateway, or leaves it alone.
LEMMA StepImplements == [BrokerNext]_bvars => [Next]_vars
<1> SUFFICES ASSUME [BrokerNext]_bvars PROVE [Next]_vars
  OBVIOUS
<1>1. ASSUME NEW w \in Worker, BrokerStep(w) PROVE [Next]_vars
  <2>1. CASE Ask(w) \/ Lookup(w) \/ Issue(w) \/ Store(w)
    BY <2>1 DEF Ask, Lookup, Issue, Store
  <2>2. CASE Unavailable(w) \/ Minted(w) \/ Permit(w) \/ Finish(w)
    BY <2>2 DEF Unavailable, Minted, Permit, Finish, Next, PermitStep
  <2> QED BY <1>1, <2>1, <2>2 DEF BrokerStep
<1>2. ASSUME NEW w \in Worker, NEW c \in Context \cup {Discovery}, TakeSnapshot(w, c)
      PROVE  [Next]_vars
  BY <1>2 DEF Next
<1>3. CASE AdminStep \/ \E g \in Grant : GrantExpires(g)
  BY <1>3 DEF Next
<1>4. CASE Tick
  BY <1>4 DEF Tick
<1>5. CASE BrokerRestart
  BY <1>5 DEF BrokerRestart, Next
<1>6. CASE UNCHANGED bvars
  BY <1>6 DEF bvars
<1> QED BY <1>1, <1>2, <1>3, <1>4, <1>5, <1>6 DEF BrokerNext

\* The gateway with the broker implements DynamicAuthority.
THEOREM ImplementsAuthority == BrokerSpec => Spec
<1>1. BrokerInit => Init
  BY DEF BrokerInit
<1> QED BY <1>1, StepImplements, PTL DEF BrokerSpec, Spec

-----------------------------------------------------------------------------
(* The inductive invariant                                                 *)

\* The times of mint are minima and maxima of two numbers.
LEMMA MinOfTwo ==
  ASSUME NEW a \in Int, NEW b \in Int
  PROVE  Min({a, b}) \in Int /\ Min({a, b}) <= a /\ Min({a, b}) <= b
<1>1. \E x \in {a, b} : \A y \in {a, b} : x <= y
  OBVIOUS
<1> QED BY <1>1 DEF Min

LEMMA CacheSecondsType == cache_seconds \in Int
<1>1. Min({Configured, MaxReuse}) \in Int
  BY MinOfTwo, BrokerAssumption
<1>2. \A a, b \in Int : Max({a, b}) \in Int
  <2> SUFFICES ASSUME NEW a \in Int, NEW b \in Int PROVE Max({a, b}) \in Int
    OBVIOUS
  <2>1. \E x \in {a, b} : \A y \in {a, b} : x >= y
    OBVIOUS
  <2> QED BY <2>1 DEF Max
<1> QED BY <1>1, <1>2 DEF cache_seconds

LEMMA KeyOfCall ==
  ASSUME TypeOK, NEW w \in Worker
  PROVE  permissions(req[w]) \in Keys
BY DEF TypeOK, Keys

LEMMA BrokerInitInv == BrokerInit => BInv
<1> SUFFICES ASSUME BrokerInit PROVE BInv
  OBVIOUS
<1>1. clock \in 0..MaxTime /\ cache \in [Keys -> Entry] /\ call \in [Worker -> Minting]
  BY BrokerAssumption DEF BrokerInit, Entry, Minting, NoEntry, NoCall
<1>2. EntriesFit
  BY DEF BrokerInit, EntriesFit, NoEntry
<1>3. CallsFit /\ ReuseIsFresh
  BY DEF BrokerInit, Init, CallsFit, CallFits, ReuseIsFresh, NoCall
<1> QED BY <1>1, <1>2, <1>3 DEF BInv

-----------------------------------------------------------------------------
(* The steps of mint                                                       *)

\* A step of thread w that leaves the other threads alone need only be looked at for w.
LEMMA OneThread ==
  ASSUME BInv, NEW w \in Worker,
         \A v \in Worker \ {w} : call'[v] = call[v] /\ pc'[v] = pc[v] /\ req'[v] = req[v],
         CallFits(w)',
         call'[w].hit => /\ call'[w].token.expires_at > call'[w].now + Margin
                         /\ call'[w].now < call'[w].token.asked + cache_seconds
  PROVE  CallsFit' /\ ReuseIsFresh'
<1>1. ASSUME NEW v \in Worker \ {w} PROVE CallFits(v)'
  <2>1. CallFits(v)
    BY DEF BInv, CallsFit
  <2> QED BY <2>1 DEF CallFits
<1>2. CallsFit'
  BY <1>1 DEF CallsFit
<1>3. ReuseIsFresh'
  BY DEF BInv, ReuseIsFresh
<1> QED BY <1>2, <1>3

LEMMA AskKeeps ==
  ASSUME TypeOK, BInv, NEW w \in Worker, Ask(w)
  PROVE  BInv'
<1> USE DEF BInv, Ask
<1>1. call' \in [Worker -> Minting] /\ cache' = cache /\ clock' = clock
  BY DEF Minting, NoCall
<1>2. EntriesFit'
  BY DEF EntriesFit
<1>3. \A v \in Worker \ {w} : call'[v] = call[v]
  OBVIOUS
<1>4. call'[w].at = "lookup" /\ ~call'[w].hit
  BY DEF NoCall
<1>5. pc' = pc /\ req' = req
  BY DEF vars, thread
<1>6. CallFits(w)'
  BY <1>4, <1>5 DEF CallFits
<1>7. CallsFit' /\ ReuseIsFresh'
  BY <1>3, <1>4, <1>5, <1>6, OneThread
<1> QED BY <1>1, <1>2, <1>7

LEMMA LookupKeeps ==
  ASSUME TypeOK, BInv, NEW w \in Worker, Lookup(w)
  PROVE  BInv'
<1> DEFINE cached == cache[permissions(req[w])]
<1>0. cached \in Entry /\ call[w] \in Minting
  BY KeyOfCall DEF BInv
<1>1. /\ \A v \in Worker \ {w} : call'[v] = call[v]
      /\ call'[w] = IF cached.reusable_until > call[w].now
                    THEN [call[w] EXCEPT !.at = "done", !.token = cached.token, !.hit = TRUE]
                    ELSE [call[w] EXCEPT !.at = "request"]
      /\ cache' = cache /\ clock' = clock /\ pc' = pc /\ req' = req
      /\ call' = [call EXCEPT ![w] = call'[w]]
  BY DEF Lookup, vars, thread, BInv
<1>2. call'[w] \in Minting
  BY <1>0, <1>1 DEF Minting, Entry
<1>3. call' \in [Worker -> Minting]
  BY <1>1, <1>2 DEF BInv
<1>4. EntriesFit'
  BY <1>1 DEF BInv, EntriesFit
<1>5. CASE cached.reusable_until > call[w].now
  <2>1. /\ call'[w].at = "done" /\ call'[w].hit /\ call'[w].token = cached.token
        /\ call'[w].now = call[w].now
    BY <1>0, <1>1, <1>5 DEF Minting
  <2>2. call[w].now \in Nat /\ cached.reusable_until \in Int
    BY <1>0, BrokerAssumption DEF Minting, Entry
  <2>3. cached.reusable_until > 0
    BY <1>5, <2>2
  <2>4. /\ cached.token.permissions = permissions(req[w])
        /\ cached.reusable_until <= cached.token.expires_at - Margin
        /\ cached.reusable_until <= cached.token.asked + cache_seconds
    BY <2>3, KeyOfCall DEF BInv, EntriesFit
  <2>5. cached.token.expires_at \in Int /\ cached.token.asked \in Int
    BY <1>0 DEF Entry, Token, NoToken
  <2>6. /\ cached.token.expires_at > call[w].now + Margin
        /\ call[w].now < cached.token.asked + cache_seconds
    BY <1>5, <2>2, <2>4, <2>5, CacheSecondsType, BrokerAssumption
  <2>7. pc[w] = "mint"
    BY DEF BInv, CallsFit, CallFits, Lookup
  <2>8. CallFits(w)'
    BY <1>1, <2>1, <2>4, <2>7 DEF CallFits
  <2> HIDE DEF cached
  <2>9. CallsFit' /\ ReuseIsFresh'
    BY <1>1, <2>1, <2>6, <2>8, OneThread
  <2> QED BY <1>1, <1>3, <1>4, <2>9 DEF BInv
<1>6. CASE ~(cached.reusable_until > call[w].now)
  <2>1. call'[w].at = "request" /\ call'[w].hit = call[w].hit
    BY <1>0, <1>1, <1>6 DEF Minting
  <2>2. pc[w] = "mint" /\ ~call[w].hit
    BY DEF BInv, CallsFit, CallFits, Lookup
  <2>3. CallFits(w)'
    BY <1>1, <2>1, <2>2 DEF CallFits
  <2>4. CallsFit' /\ ReuseIsFresh'
    BY <1>1, <2>1, <2>2, <2>3, OneThread
  <2> QED BY <1>1, <1>3, <1>4, <2>4 DEF BInv
<1> QED BY <1>5, <1>6

LEMMA IssueKeeps ==
  ASSUME TypeOK, BInv, NEW w \in Worker, Issue(w)
  PROVE  BInv'
<1>0. call[w] \in Minting /\ clock \in Nat /\ call[w].now \in Nat
  BY BrokerAssumption DEF BInv, Minting
<1>1. PICK life \in Lifetimes :
        call' = [call EXCEPT ![w].at = "answer",
                   ![w].token = [permissions |-> permissions(req[w]),
                                 expires_at |-> clock + life, asked |-> call[w].now]]
  BY DEF Issue
<1> DEFINE token == [permissions |-> permissions(req[w]), expires_at |-> clock + life,
                     asked |-> call[w].now]
<1>2. token \in Token
  BY <1>0, KeyOfCall, BrokerAssumption DEF Token
<1>3. /\ \A v \in Worker \ {w} : call'[v] = call[v]
      /\ call'[w] = [call[w] EXCEPT !.at = "answer", !.token = token]
      /\ call' = [call EXCEPT ![w] = call'[w]]
      /\ cache' = cache /\ clock' = clock /\ pc' = pc /\ req' = req
  BY <1>0, <1>1 DEF Issue, vars, thread, BInv, Minting
<1>4. call'[w] \in Minting
  BY <1>0, <1>2, <1>3 DEF Minting
<1>5. /\ call'[w].at = "answer" /\ call'[w].token = token
      /\ call'[w].hit = call[w].hit /\ call'[w].now = call[w].now
  BY <1>0, <1>3 DEF Minting
<1>6. pc[w] = "mint" /\ ~call[w].hit
  BY DEF BInv, CallsFit, CallFits, Issue
<1>7. CallsFit' /\ ReuseIsFresh'
  <2>1. token.permissions = permissions(req[w]) /\ token.asked = call[w].now
    OBVIOUS
  <2>2. /\ call'[w].token.permissions = permissions(req'[w])
        /\ call'[w].token.asked = call'[w].now
    BY <1>3, <1>5, <2>1
  <2> HIDE DEF token
  <2>3. CallFits(w)'
    BY <1>3, <1>5, <1>6, <2>2 DEF CallFits
  <2> QED BY <1>3, <1>5, <1>6, <2>3, OneThread
<1>8. EntriesFit' /\ call' \in [Worker -> Minting]
  BY <1>3, <1>4 DEF EntriesFit, BInv
<1> QED BY <1>3, <1>7, <1>8 DEF BInv

LEMMA StoreKeeps ==
  ASSUME TypeOK, BInv, NEW w \in Worker, Store(w)
  PROVE  BInv'
<1> DEFINE until == reusable_until(call[w])
           key   == permissions(req[w])
           entry == [token |-> call[w].token, reusable_until |-> until]
<1>0. call[w] \in Minting /\ key \in Keys
  BY KeyOfCall DEF BInv
<1>1. /\ \A v \in Worker \ {w} : call'[v] = call[v]
      /\ call'[w] = [call[w] EXCEPT !.at = "done"]
      /\ call' = [call EXCEPT ![w] = call'[w]]
      /\ cache' = IF until > call[w].now THEN [cache EXCEPT ![key] = entry] ELSE cache
      /\ clock' = clock /\ pc' = pc /\ req' = req
  BY DEF Store, vars, thread, BInv
<1>2. call'[w] \in Minting
  BY <1>0, <1>1 DEF Minting
<1>3. /\ call[w].token.permissions = key /\ call[w].token.asked = call[w].now
      /\ pc[w] = "mint" /\ ~call[w].hit
  BY DEF BInv, CallsFit, CallFits, Store
<1>4. /\ call'[w].at = "done" /\ call'[w].token = call[w].token /\ call'[w].hit = call[w].hit
  BY <1>0, <1>1 DEF Minting
<1>5. CallsFit' /\ ReuseIsFresh'
  <2>1. CallFits(w)'
    BY <1>1, <1>3, <1>4 DEF CallFits
  <2> QED BY <1>1, <1>3, <1>4, <2>1, OneThread
<1>6. /\ until \in Int /\ until <= call[w].token.expires_at - Margin
      /\ until <= call[w].now + cache_seconds
  <2>1. call[w].token.expires_at - Margin \in Int /\ call[w].now + cache_seconds \in Int
    BY <1>0, CacheSecondsType, BrokerAssumption DEF Minting, Token, NoToken
  <2> QED BY <2>1, MinOfTwo DEF reusable_until
<1>7. entry \in Entry
  BY <1>0, <1>6 DEF Entry, Minting
<1>8. cache' \in [Keys -> Entry]
  BY <1>0, <1>1, <1>7 DEF BInv
<1>9. EntriesFit'
  <2>1. \A k \in Keys : cache'[k] = cache[k] \/ (k = key /\ cache'[k] = entry)
    BY <1>0, <1>1 DEF BInv
  <2> QED BY <1>3, <1>6, <2>1 DEF EntriesFit, BInv
<1> QED BY <1>1, <1>2, <1>5, <1>8, <1>9 DEF BInv

-----------------------------------------------------------------------------
(* The other steps                                                         *)

\* Thread w ends its call and its token.
LEMMA EndKeeps ==
  ASSUME TypeOK, BInv, NEW w \in Worker, Answer(w), Drop(w)
  PROVE  BInv'
<1>1. /\ \A v \in Worker \ {w} : call'[v] = call[v] /\ pc'[v] = pc[v] /\ req'[v] = req[v]
      /\ call'[w] = NoCall /\ pc'[w] = "idle" /\ cache' = cache /\ clock' = clock
      /\ call' = [call EXCEPT ![w] = NoCall]
  BY DEF Answer, Goto, Drop, TypeOK, BInv
<1>2. call' \in [Worker -> Minting]
  BY <1>1, BrokerAssumption DEF BInv, Minting, NoCall
<1>3. EntriesFit'
  BY <1>1 DEF EntriesFit, BInv
<1>4. CallFits(w)' /\ ~call'[w].hit
  BY <1>1 DEF CallFits, NoCall
<1>5. CallsFit' /\ ReuseIsFresh'
  BY <1>1, <1>4, OneThread
<1> QED BY <1>1, <1>2, <1>3, <1>5 DEF BInv

\* Thread w goes on with or without its token, and the call it serves stays.
LEMMA GoOnKeeps ==
  ASSUME TypeOK, BInv, NEW w \in Worker, UNCHANGED broker,
         \A v \in Worker \ {w} : pc'[v] = pc[v] /\ req'[v] = req[v],
         \/ /\ call[w].at = "idle" /\ pc'[w] \notin {"minted", "consume", "forward"}
         \/ /\ call[w].at = "done" /\ pc'[w] \in {"mint", "minted", "consume", "forward"}
            /\ req'[w] = req[w]
  PROVE  BInv'
<1>1. cache' = cache /\ call' = call /\ clock' = clock
  BY DEF broker
<1>2. CallFits(w) /\ ReuseIsFresh
  BY DEF BInv, CallsFit
<1>3. CallFits(w)'
  BY <1>1, <1>2 DEF CallFits
<1>4. CallsFit' /\ ReuseIsFresh'
  BY <1>1, <1>2, <1>3, OneThread DEF ReuseIsFresh
<1> QED BY <1>1, <1>4 DEF BInv, EntriesFit

LEMMA PermitKeeps ==
  ASSUME TypeOK, BInv, NEW w \in Worker, Minted(w) \/ Permit(w)
  PROVE  BInv'
<1>0. call[w] \in Minting
  BY DEF BInv
<1>1. CASE Minted(w)
  <2>1. /\ \A v \in Worker \ {w} : pc'[v] = pc[v] /\ req'[v] = req[v]
        /\ pc'[w] \in {"minted", "forward"} /\ req'[w] = req[w]
    BY <1>1 DEF Minted, Mint, Goto, TypeOK
  <2> QED BY <1>1, <2>1, GoOnKeeps DEF Minted
<1>2. CASE CheckGrant(w) /\ UNCHANGED broker
  <2>1. /\ \A v \in Worker \ {w} : pc'[v] = pc[v] /\ req'[v] = req[v]
        /\ pc'[w] \in {"record", "mint"} /\ pc[w] = "check"
    BY <1>2 DEF CheckGrant, Goto, TypeOK
  <2>2. call[w].at = "idle"
    BY <1>0, <2>1 DEF BInv, CallsFit, CallFits, Minting
  <2> QED BY <1>2, <2>1, <2>2, GoOnKeeps
<1>3. CASE record_execution_approval(w) /\ UNCHANGED broker
  <2>1. /\ \A v \in Worker \ {w} : pc'[v] = pc[v] /\ req'[v] = req[v]
        /\ pc'[w] = "idle" /\ pc[w] = "record"
    BY <1>3 DEF record_execution_approval, Answer, Goto, TypeOK
  <2>2. call[w].at = "idle"
    BY <1>0, <2>1 DEF BInv, CallsFit, CallFits, Minting
  <2> QED BY <1>3, <2>1, <2>2, GoOnKeeps
<1>4. CASE (consume_execution_grant(w) \/ record_auto_execution(w)) /\ UNCHANGED broker
  <2>1. /\ \A v \in Worker \ {w} : pc'[v] = pc[v] /\ req'[v] = req[v]
        /\ pc'[w] = "forward" /\ pc[w] \in {"minted", "consume"} /\ req'[w] = req[w]
    BY <1>4 DEF consume_execution_grant, record_auto_execution, Goto, TypeOK
  <2>2. call[w].at = "done"
    BY <1>0, <2>1 DEF BInv, CallsFit, CallFits, Minting
  <2> QED BY <1>4, <2>1, <2>2, GoOnKeeps
<1>5. CASE ReadClock(w) /\ UNCHANGED broker
  <2>1. /\ \A v \in Worker \ {w} : pc'[v] = pc[v] /\ req'[v] = req[v]
        /\ \/ pc[w] = "authorize" /\ pc'[w] = "check"
           \/ pc[w] = "minted" /\ pc'[w] = "consume"
        /\ req'[w] = req[w]
    BY <1>5 DEF ReadClock, Goto, TypeOK
  <2>2. call[w].at = IF pc[w] = "authorize" THEN "idle" ELSE "done"
    BY <1>0, <2>1 DEF BInv, CallsFit, CallFits, Minting
  <2> QED BY <1>5, <2>1, <2>2, GoOnKeeps
<1> QED BY <1>1, <1>2, <1>3, <1>4, <1>5 DEF Permit

\* Neither the operators nor the clocks touch a thread or the broker's tokens.
LEMMA OthersKeep ==
  ASSUME BInv, pc' = pc, req' = req, cache' = cache, call' = call, clock' \in 0..MaxTime
  PROVE  BInv'
BY DEF BInv, EntriesFit, CallsFit, CallFits, ReuseIsFresh

LEMMA BrokerStepKeeps ==
  ASSUME TypeOK, BInv, [BrokerNext]_bvars
  PROVE  BInv'
<1>1. ASSUME NEW w \in Worker, BrokerStep(w) PROVE BInv'
  <2>1. CASE Unavailable(w) \/ Finish(w)
    <3>1. Answer(w) /\ Drop(w)
      BY <2>1 DEF Unavailable, Finish, MintFails, GrantGone, Forward
    <3> QED BY <3>1, EndKeeps
  <2> QED
    BY <1>1, <2>1, AskKeeps, LookupKeeps, IssueKeeps, StoreKeeps, PermitKeeps DEF BrokerStep
<1>2. ASSUME NEW w \in Worker, NEW c \in Context \cup {Discovery},
             TakeSnapshot(w, c) /\ UNCHANGED broker
      PROVE  BInv'
  <2>1. /\ \A v \in Worker \ {w} : pc'[v] = pc[v] /\ req'[v] = req[v]
        /\ pc'[w] \in {"mint", "authorize"} /\ pc[w] = "idle"
    BY <1>2 DEF TakeSnapshot, Goto, TypeOK
  <2>2. call[w] \in Minting
    BY DEF BInv
  <2>3. call[w].at = "idle"
    BY <2>1, <2>2 DEF BInv, CallsFit, CallFits, Minting
  <2> QED BY <1>2, <2>1, <2>3, GoOnKeeps
<1>3. CASE AdminStep /\ UNCHANGED broker
  <2>1. pc' = pc /\ req' = req
    BY <1>3 DEF AdminStep, set_emergency_stop, add_tool_exception, set_capability_override,
                grant_once, thread
  <2> QED BY <1>3, <2>1, OthersKeep DEF broker, BInv
<1>4. ASSUME NEW g \in Grant, GrantExpires(g), UNCHANGED broker PROVE BInv'
  BY <1>4, OthersKeep DEF GrantExpires, thread, broker, BInv
<1>5. CASE Tick
  <2>1. clock' \in 0..MaxTime
    BY <1>5, BrokerAssumption DEF Tick, BInv
  <2> QED BY <1>5, <2>1, OthersKeep DEF Tick, vars, thread
<1>6. CASE BrokerRestart
  <2>1. /\ \A w \in Worker : call'[w] = NoCall /\ pc'[w] = "idle"
        /\ \A k \in Keys : cache'[k] = NoEntry
        /\ cache' = [k \in Keys |-> NoEntry] /\ call' = [w \in Worker |-> NoCall]
        /\ clock' = clock
    BY <1>6 DEF BrokerRestart, Restart
  <2>2. cache' \in [Keys -> Entry] /\ call' \in [Worker -> Minting]
    BY <2>1, BrokerAssumption DEF Entry, Minting, NoEntry, NoCall
  <2>3. EntriesFit' /\ CallsFit' /\ ReuseIsFresh'
    BY <2>1 DEF EntriesFit, CallsFit, CallFits, ReuseIsFresh, NoEntry, NoCall
  <2> QED BY <2>1, <2>2, <2>3 DEF BInv
<1>7. CASE UNCHANGED bvars
  BY <1>7, OthersKeep DEF bvars, vars, thread, broker, BInv
<1> QED BY <1>1, <1>2, <1>3, <1>4, <1>5, <1>6, <1>7 DEF BrokerNext

-----------------------------------------------------------------------------
(* The theorems                                                            *)

\* The invariant of the broker, and the gateway's own under it.
THEOREM BrokerInvariance == BrokerSpec => [](TypeOK /\ BInv)
<1>1. BrokerSpec => []TypeOK
  <2>1. IInv => TypeOK
    BY DEF IInv
  <2> QED BY <2>1, ImplementsAuthority, GatewayInvariance, PTL
<1> QED BY <1>1, BrokerInitInv, BrokerStepKeeps, PTL DEF BrokerSpec

\* Every request goes upstream with a token of exactly its own permissions, whatever
\* the threads that share the cache ask for.
THEOREM TokensFitCalls == BrokerSpec => []TokenFitsCall
<1>1. TypeOK /\ BInv => TokenFitsCall
  <2> SUFFICES ASSUME BInv, NEW w \in Worker, pc[w] \in {"minted", "consume", "forward"}
               PROVE  call[w].token.permissions = permissions(req[w])
    BY DEF TokenFitsCall
  <2>1. call[w].at = "done"
    BY DEF BInv, CallsFit, CallFits, Minting
  <2> QED BY <2>1 DEF BInv, CallsFit, CallFits
<1> QED BY <1>1, BrokerInvariance, PTL

\* A reused token is within its lifetime less the margin and within the cache time.
THEOREM ReuseStaysFresh == BrokerSpec => []ReuseIsFresh
<1>1. TypeOK /\ BInv => ReuseIsFresh
  BY DEF BInv
<1> QED BY <1>1, BrokerInvariance, PTL

\* The one-shot grants stay one-shot with the broker's steps between check and use.
THEOREM BrokeredOneShot == BrokerSpec => []OneShot
BY ImplementsAuthority, GrantsAreOneShot, PTL
=============================================================================
