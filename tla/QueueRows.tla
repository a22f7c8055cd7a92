------------------------------ MODULE QueueRows ------------------------------
(***************************************************************************)
(* The life of one row of a role's assignments table, as everything        *)
(* outside the orchestrator sees it (db.py writes the rows,                *)
(* status_snapshot.py classifies them): a PENDING row is due, or delayed   *)
(* until its next_retry_at; every status that is none of PENDING, STARTED  *)
(* and COMPLETED is blocked.  "none": no row yet.                          *)
(***************************************************************************)

Status == {"none", "due", "delayed", "STARTED", "blocked", "COMPLETED"}

\* What one tick or reconciliation may commit for a row: it is discovered, perhaps
\* started at once; a due row is started; a running one is settled, or goes back to
\* PENDING.  A due row is settled if an operator requeued it while its run was ACTIVE.
TickMoves(s) ==
  {t \in Status :
    <<s, t>> \in ({"none"} \X {"due", "STARTED"}) \cup ({"due"} \X {"STARTED"})
                \cup ({"due", "STARTED"} \X {"due", "delayed", "blocked", "COMPLETED"})}

\* What cli.requeue may do to a row that exists.
RequeueMoves(s) == IF s = "none" THEN {} ELSE {"due"}
=============================================================================
