----------------------------- MODULE MCQueueBoard -----------------------------
(***************************************************************************)
(* QueueBoard for TLC.  The .cfg files differ in the number of concurrent  *)
(* requests and in Workload.  Pull requests, users, commits and requests   *)
(* are interchangeable; the liveness run does not use the symmetry.        *)
(***************************************************************************)
EXTENDS QueueBoard

\* Five operations wait at once in board_overlap: a removal has three, so two
\* requests that are both removals cross once an operation of the first is
\* done.
MaxPending == 5
FewPending == Cardinality(pending) <= MaxPending

Symmetry == Permutations(PullRequests) \cup Permutations(Users)
            \cup Permutations(Shas) \cup Permutations(Requests)
===============================================================================
