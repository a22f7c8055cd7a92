-------------------------- MODULE MCStatusOverview --------------------------
\* Values for the constants of StatusOverview that a .cfg file cannot write.
EXTENDS StatusOverview

CONSTANTS r1, r2, w1, w2

\* One role works on one assignment and has another due, more than it can list;
\* the other role has none yet, so that a commit there makes an overview of
\* both too large.
BusyAndIdle ==
  {[r \in Role |-> [w \in Work |->
      IF r = r2 THEN "none" ELSE IF w = w1 THEN "due" ELSE "STARTED"]]}
=============================================================================
