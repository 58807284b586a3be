---------------------------- MODULE MCQueueManager ----------------------------
(***************************************************************************)
(* QueueManager for TLC: two concurrent addItem calls on a branch with two *)
(* pull requests.  Callers, pull requests and users are interchangeable.   *)
(***************************************************************************)
EXTENDS QueueManager, TLC

Symmetry == Permutations(Callers) \cup Permutations(PullRequests)
            \cup Permutations(Users)
===============================================================================
