------------------------------ MODULE RoleQueue ------------------------------
(***************************************************************************)
(* What a role's orchestrator promises of its queue, whatever happens      *)
(* between the steps of a command: each row lives the life of QueueRows, a *)
(* command changes any number of rows at once, and only the operator's     *)
(* requeue brings a blocked or COMPLETED row back.  RoleOrchestrator       *)
(* implements it; StatusOverview reads queues that behave so.              *)
(***************************************************************************)
EXTENDS QueueRows

CONSTANT Work      \* assignment keys

VARIABLE queue     \* the status of each row in the committed database

Init == queue = [w \in Work |-> "none"]

\* cli.run_once and cli.reconcile_only commit.
Tick ==
  /\ queue' \in [Work -> Status]
  /\ \A w \in Work : queue'[w] \in TickMoves(queue[w]) \cup {queue[w]}

\* cli.requeue commits.
Requeue ==
  /\ queue' \in [Work -> Status]
  /\ \A w \in Work : queue'[w] \in RequeueMoves(queue[w]) \cup {queue[w]}

\* next_retry_at comes.
RetryComes(w) == queue[w] = "delayed" /\ queue' = [queue EXCEPT ![w] = "due"]

Next == Tick \/ Requeue \/ \E w \in Work : RetryComes(w)

Spec == Init /\ [][Next]_queue
=============================================================================
