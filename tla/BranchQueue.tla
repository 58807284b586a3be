------------------------------ MODULE BranchQueue ------------------------------
(***************************************************************************)
(* The queue of one branch, as its readers get it, among those of          *)
(* QueueFeed.  It is the BookingQueue that QueueManager implements and     *)
(* that QueueBoard and ChecksNotification start from: they may model one   *)
(* branch, for no other branch and no deletion of an owner's queues does   *)
(* anything to it that BookingQueue does not allow.                        *)
(***************************************************************************)
EXTENDS QueueFeed

CONSTANT Branch  \* any one of the branches

ASSUME BranchAssumption == Branch \in Branches

\* The bookings as the documents have them, without their history.
Listed(q) == [i \in DOMAIN q |-> [pr |-> q[i].pr, user |-> q[i].user]]

BranchItems == Listed(Items(Key(Branch)))

Bookings == INSTANCE BookingQueue WITH queue <- BranchItems

\* Whatever happens to other branches, also to one whose id collides with
\* this one's, the items of a branch join at the end, once per pull request,
\* leave one by one, or go all at once.
BranchIsABookingQueue == Bookings!QueueSpec
===============================================================================
