----------------------------- MODULE BookingQueue -----------------------------
(***************************************************************************)
(* What manager-queue.js promises about the queue of one branch: a FIFO    *)
(* of bookings in which a pull request appears at most once.  Bookings     *)
(* join at the end, leave from anywhere, and the whole queue goes when the *)
(* owner uninstalls the app.                                               *)
(*                                                                         *)
(* A booking stands for the item document {pullRequestNumber, username,    *)
(* createdAt}; createdAt is never read by the server and is left out.      *)
(* QueueManager refines this specification down to the single Mongo        *)
(* commands; QueueBoard uses its actions as the queue it serves.           *)
(***************************************************************************)
EXTENDS Integers, Sequences, SequencesExt

CONSTANTS PullRequests,  \* the numbers of the pull requests of one branch
          Users          \* the logins that book them

VARIABLE queue

Booking == [pr: PullRequests, user: Users]

-----------------------------------------------------------------------------
(* Reading a queue.                                                        *)

Holds(q, pr) == \E i \in DOMAIN q : q[i].pr = pr

\* findIndex(propEq('pullRequestNumber', pr)) + 1: 0 when pr is not queued.
Position(q, pr) ==
    IF Holds(q, pr) THEN CHOOSE i \in DOMAIN q : q[i].pr = pr ELSE 0

\* The pull requests booked ahead of pr, which wait for less than pr does.
AheadOf(q, pr) ==
    {q[i].pr : i \in {k \in DOMAIN q :
                        \E j \in DOMAIN q : k < j /\ q[j].pr = pr}}

\* getItem: the booking of pr, in a queue that holds one.
BookingOf(q, pr) == CHOOSE b \in ToSet(q) : b.pr = pr

\* $pull: the booking that matches username and pullRequestNumber goes, and
\* nothing goes when none matches.  $pull would take every match; there is at
\* most one (UniqueBookings).
Pull(q, b) == IF b \in ToSet(q)
              THEN RemoveAt(q, CHOOSE i \in DOMAIN q : q[i] = b)
              ELSE q

\* meta.firstItemChanged: the queue BEFORE the $pull had pr at its head.
FirstItemChanged(pr) == queue # <<>> /\ Head(queue).pr = pr

-----------------------------------------------------------------------------
QueueInit == queue = <<>>

\* $push under the filter 'queue.pullRequestNumber': {$ne: pr}.
Join(b) == ~Holds(queue, b.pr) /\ queue' = Append(queue, b)

Leave(b) == queue' = Pull(queue, b)

Clear == queue' = <<>>

QueueNext == (\E b \in Booking : Join(b) \/ Leave(b)) \/ Clear

QueueSpec == QueueInit /\ [][QueueNext]_queue

-----------------------------------------------------------------------------
QueueTypeOK == queue \in Seq(Booking)

\* No two bookings of the queue are of the same pull request: the $ne filter
\* of addItem is the only thing that keeps a second click from booking twice.
UniqueBookings ==
    \A i, j \in DOMAIN queue : queue[i].pr = queue[j].pr => i = j

\* First come, first served: while a pull request keeps its booking nobody
\* gets ahead of it, neither a newcomer ($push goes to the end) nor somebody
\* who was behind ($pull keeps the order of the rest).
NobodyOvertakes ==
    [][\A pr \in PullRequests :
         Holds(queue, pr) /\ Holds(queue', pr) =>
           AheadOf(queue', pr) \subseteq AheadOf(queue, pr)]_queue
===============================================================================
