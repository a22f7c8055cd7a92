--------------------------- MODULE MCTokenBroker ---------------------------
(* TokenBroker for TLC: the handler threads are interchangeable.             *)
EXTENDS TokenBroker, TLC

ThreadSymmetry == Permutations(Worker)
=============================================================================
