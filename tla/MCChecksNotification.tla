------------------------- MODULE MCChecksNotification -------------------------
(***************************************************************************)
(* ChecksNotification for TLC.  Pull requests, users, apps, requests and   *)
(* the ids of notifications are interchangeable.                           *)
(***************************************************************************)
EXTENDS ChecksNotification

Symmetry == Permutations(PullRequests) \cup Permutations(Users)
            \cup Permutations(Apps) \cup Permutations(Notices)
            \cup Permutations(Requests)

Untouched(pr) ==
    /\ ~Holds(queue, pr)
    /\ pr \notin owed
    /\ \A a \in Apps : suites[pr][a] = "none"
    /\ state[pr] = "pending"
    /\ status[pr] = "pending"
    /\ \A b \in Booking : b.pr = pr => record[b] = NoRecord
    /\ \A op \in pending : op.pr # pr
    /\ \A n \in scheduled : n.booking.pr # pr

\* Explored: everything that can happen to one pull request alone; to several,
\* one request at a time, or two for different ones with no webhook to come,
\* as long as no pull request is troubled.
Focus ==
    \/ \E pr \in PullRequests : \A x \in PullRequests \ {pr} : Untouched(x)
    \/ /\ troubled = {}
       /\ \/ Cardinality(pending) <= 1
          \/ /\ owed = {}
             /\ Cardinality(scheduled) <= 1
             /\ \A o, p \in pending : o.pr = p.pr => o = p
===============================================================================
