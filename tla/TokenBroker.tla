---------------------------- MODULE TokenBroker ----------------------------
(***************************************************************************)
(* The GitHub App token broker (github_app.py) inside the dynamic gateway: *)
(* the step DynamicAuthority calls Mint is taken apart into the steps of   *)
(* GitHubAppTokenBroker.mint, whose cache the handler threads share.       *)
(*                                                                         *)
(* mint reads the clock once, looks into the cache under the lock, and     *)
(* lets the lock go for the request to GitHub, so that several threads     *)
(* miss together and their answers come back in any order.  Every call is  *)
(* for the configured repository (builder_invocation_context refuses the   *)
(* others), so the cache key is the permission set.  Times are in units of *)
(* the instance; the clock stops at MaxTime.                               *)
(***************************************************************************)
EXTENDS DynamicAuthority, FiniteSetsExt

CONSTANTS
  Configured,  \* CAPABILITY_PROVIDER_TOKEN_CACHE_SECONDS
  MaxReuse,    \* the 900 seconds it is clamped to
  Margin,      \* the 60 seconds before its expiry in which a token is not reused
  Lifetimes,   \* how long GitHub lets a token live, as seen by the local clock
  MaxTime      \* bound: the clock

ASSUME BrokerAssumption ==
  /\ Configured \in Int /\ MaxReuse \in Nat /\ Margin \in Nat
  /\ Lifetimes \subseteq Nat /\ MaxTime \in Nat

VARIABLES
  clock,  \* time.time()
  cache,  \* _cache: reusable_until and the token, for each permission set
  call    \* each thread's call of mint, and then its ExecutionPermit's token

broker == <<clock, cache, call>>
bvars == <<vars, broker>>

\* github_permissions of BUILDER_ACTIONS, BUILDER_DISCOVERY_PERMISSIONS.
permissions(c) ==
  IF c = Discovery THEN {"contents:write", "pull_requests:write", "actions:write"}
  ELSE CASE c[1] \in {"get_file_contents", "get_repository_tree", "search_code"} -> {"contents:read"}
         [] c[1] \in {"create_branch", "push_files"} -> {"contents:write"}
         [] c[1] = "create_pull_request" -> {"pull_requests:write"}
         [] c[1] = "actions_run_trigger" -> {"actions:write"}
         [] c[1] \in {"actions_get", "actions_list", "get_job_logs"} -> {"actions:read"}

Keys == {permissions(c) : c \in Context \cup {Discovery}}

\* ProviderToken; asked is history, the clock its requester read.
Token == [permissions: Keys, expires_at: Nat, asked: Nat]
NoToken == [permissions |-> {}, expires_at |-> 0, asked |-> 0]

\* NoEntry is never reused, as its time has passed at every clock.
NoEntry == [token |-> NoToken, reusable_until |-> 0]
NoCall == [at |-> "idle", now |-> 0, token |-> NoToken, hit |-> FALSE]

Entry == [token: Token \cup {NoToken}, reusable_until: Int]
Minting == [at: {"idle", "lookup", "request", "answer", "done"}, now: 0..MaxTime,
            token: Token \cup {NoToken}, hit: BOOLEAN]

BrokerTypeOK ==
  /\ TypeOK /\ clock \in 0..MaxTime
  /\ cache \in [Keys -> Entry] /\ call \in [Worker -> Minting]

cache_seconds == Max({0, Min({Configured, MaxReuse})})

-----------------------------------------------------------------------------
(* GitHubAppTokenBroker.mint, thread w                                     *)

\* The permission set is normalised and the clock read.
Ask(w) ==
  /\ pc[w] = "mint" /\ call[w].at = "idle"
  /\ call' = [call EXCEPT ![w] = [NoCall EXCEPT !.at = "lookup", !.now = clock]]
  /\ UNCHANGED <<vars, clock, cache>>

\* Mutant: any token of the repository will do.
LookupAny(w) ==
  /\ call[w].at = "lookup"
  /\ \E k \in Keys :
       call' = [call EXCEPT ![w] =
                  IF cache[k].reusable_until > @.now
                  THEN [@ EXCEPT !.at = "done", !.token = cache[k].token, !.hit = TRUE]
                  ELSE [@ EXCEPT !.at = "request"]]
  /\ UNCHANGED <<vars, clock, cache>>

\* The cache is read under the lock: a token that may be reused ends the call.
Lookup(w) ==
  LET cached == cache[permissions(req[w])]
  IN /\ call[w].at = "lookup"
     /\ call' = [call EXCEPT ![w] =
                   IF cached.reusable_until > @.now
                   THEN [@ EXCEPT !.at = "done", !.token = cached.token, !.hit = TRUE]
                   ELSE [@ EXCEPT !.at = "request"]]
     /\ UNCHANGED <<vars, clock, cache>>

\* GitHub creates a token for the repository and the permissions asked for.
Issue(w) ==
  /\ call[w].at = "request"
  /\ \E life \in Lifetimes :
       call' = [call EXCEPT ![w].at = "answer",
                  ![w].token = [permissions |-> permissions(req[w]),
                                expires_at |-> clock + life, asked |-> call[w].now]]
  /\ UNCHANGED <<vars, clock, cache>>

\* Mutant: the expiry GitHub reports is not looked at.
reusable_for_long(c) == c.now + cache_seconds

reusable_until(c) == Min({c.token.expires_at - Margin, c.now + cache_seconds})

\* The answer is read, and kept for others while it is worth it: it replaces the entry
\* of its permission set, whichever of the two tokens lives longer.
Store(w) ==
  LET until == reusable_until(call[w])
      key   == permissions(req[w])
  IN /\ call[w].at = "answer"
     /\ cache' = IF until > call[w].now
                 THEN [cache EXCEPT ![key] = [token |-> call[w].token, reusable_until |-> until]]
                 ELSE cache
     /\ call' = [call EXCEPT ![w].at = "done"]
     /\ UNCHANGED <<vars, clock>>

Drop(w) == call' = [call EXCEPT ![w] = NoCall] /\ UNCHANGED <<clock, cache>>

\* GitHubAppUnavailable: the JWT is not signed, the request fails or times out (the
\* token may exist all the same), or the answer is malformed.
Unavailable(w) ==
  /\ call[w].at \in {"request", "answer"}
  /\ MintFails(w) /\ Drop(w)

-----------------------------------------------------------------------------
(* The rest of permit and forward, around it                               *)

Minted(w) == call[w].at = "done" /\ Mint(w) /\ UNCHANGED broker

\* The steps of permit that neither need nor end the token.
Permit(w) ==
  /\ \/ ReadClock(w) \/ CheckGrant(w) \/ record_execution_approval(w)
     \/ consume_execution_grant(w) \/ record_auto_execution(w)
  /\ UNCHANGED broker

Finish(w) == (GrantGone(w) \/ Forward(w)) /\ Drop(w)

BrokerStep(w) ==
  \/ Ask(w) \/ Lookup(w) \/ Issue(w) \/ Store(w) \/ Unavailable(w)
  \/ Minted(w) \/ Permit(w) \/ Finish(w)

Tick == clock < MaxTime /\ clock' = clock + 1 /\ UNCHANGED <<vars, cache, call>>

\* The cache lives in the process.
BrokerRestart ==
  /\ Restart
  /\ cache' = [k \in Keys |-> NoEntry] /\ call' = [w \in Worker |-> NoCall]
  /\ UNCHANGED clock

BrokerInit ==
  /\ Init
  /\ clock = 0 /\ cache = [k \in Keys |-> NoEntry] /\ call = [w \in Worker |-> NoCall]

BrokerNext ==
  \/ \E w \in Worker : BrokerStep(w)
  \/ \E w \in Worker, c \in Context \cup {Discovery} : TakeSnapshot(w, c) /\ UNCHANGED broker
  \/ (AdminStep \/ \E g \in Grant : GrantExpires(g)) /\ UNCHANGED broker
  \/ Tick
  \/ BrokerRestart

BrokerSpec == BrokerInit /\ [][BrokerNext]_bvars

-----------------------------------------------------------------------------
(* Properties                                                              *)

\* DYNAMIC_REQUEST_AUTHORITY.md: "Actual tools/call requests use the minimum permission
\* set": whatever the other threads asked for and the cache holds, the token a request
\* goes upstream with is one for exactly the permissions of its own call.
TokenFitsCall ==
  \A w \in Worker : pc[w] \in {"minted", "consume", "forward"} =>
    call[w].token.permissions = permissions(req[w])

\* A token taken from the cache had more than Margin to live when its reader looked at
\* the clock, and was asked for less than cache_seconds before, in whatever order the
\* answers of the threads that missed together replaced each other.
ReuseIsFresh ==
  \A w \in Worker : call[w].hit =>
    /\ call[w].token.expires_at > call[w].now + Margin
    /\ call[w].now < call[w].token.asked + cache_seconds

-----------------------------------------------------------------------------
(* The inductive invariant behind them                                     *)

\* What may be reused is filed under its own permissions and within both limits.
EntriesFit ==
  \A k \in Keys : cache[k].reusable_until > 0 =>
    /\ cache[k].token.permissions = k
    /\ cache[k].reusable_until <= cache[k].token.expires_at - Margin
    /\ cache[k].reusable_until <= cache[k].token.asked + cache_seconds

\* A thread is in mint while permit waits for it, and has the token from then on.
CallFits(w) ==
  /\ call[w].at \in {"lookup", "request", "answer"} => pc[w] = "mint" /\ ~call[w].hit
  /\ call[w].at = "idle" => pc[w] \notin {"minted", "consume", "forward"} /\ ~call[w].hit
  /\ call[w].at = "done" => pc[w] \in {"mint", "minted", "consume", "forward"}
  /\ call[w].at \in {"answer", "done"} => call[w].token.permissions = permissions(req[w])
  /\ call[w].at = "answer" => call[w].token.asked = call[w].now

CallsFit == \A w \in Worker : CallFits(w)

BInv ==
  /\ clock \in 0..MaxTime /\ cache \in [Keys -> Entry] /\ call \in [Worker -> Minting]
  /\ EntriesFit /\ CallsFit /\ ReuseIsFresh
=============================================================================
