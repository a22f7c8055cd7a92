-------------------------- MODULE MCOpenHandsRunner --------------------------
\* Instances of OpenHandsRunner for TLC.
EXTENDS OpenHandsRunner

CONSTANTS c1, c2, c3, d1, d2

\* Two calls for one workspace, and one for another.
ThreeRequests == {<<c1, d1>>, <<c2, d1>>, <<c3, d2>>}

EveryRequest == Call \X Workspace
=============================================================================
