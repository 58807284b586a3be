------------------------------ MODULE MCQueueFeed ------------------------------
(***************************************************************************)
(* Three branches: web of acme and web of zeta differ in the owner alone,  *)
(* and ui of acme-web has the id of branch ui-main of web of acme.         *)
(***************************************************************************)
EXTENDS BranchQueue, TLC

MCParts == {"acme", "zeta", "web", "ui", "main"}

MCBranch == [owner |-> <<"acme">>, repo |-> <<"web">>, branch |-> <<"ui", "main">>]

MCBranches ==
    {MCBranch,
     [owner |-> <<"acme", "web">>, repo |-> <<"ui">>, branch |-> <<"main">>],
     [owner |-> <<"zeta">>, repo |-> <<"web">>, branch |-> <<"ui", "main">>]}

Symmetry == Permutations(PullRequests) \cup Permutations(Users)
            \cup Permutations(Updates)
===============================================================================
