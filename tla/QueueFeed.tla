------------------------------- MODULE QueueFeed -------------------------------
(***************************************************************************)
(* The queue collection as manager-queue.js keeps it for many branches,    *)
(* each in a document whose _id joins owner, repo and branch with dashes,  *)
(* and the updates of handler-event-queue.js and                           *)
(* handler-notification-pusher.js that tell the clients of a branch about  *)
(* it, over a Pusher channel whose name is that same id.                   *)
(*                                                                         *)
(* An update is an item event whose callback reads the queue (getItems)    *)
(* and triggers what it read on the channel.  Nothing orders two updates,  *)
(* and nobody waits for them or repeats one that failed.                   *)
(*                                                                         *)
(* A name is the sequence of its parts between dashes, so that joining     *)
(* names with dashes concatenates their parts.                             *)
(***************************************************************************)
EXTENDS Naturals, Sequences, SequencesExt

CONSTANTS Parts,     \* what names consist of
          Branches,  \* the branches: records of owner, repo and branch names
          PullRequests, Users,
          Updates,   \* slots for updates under way at the same time
          NoDoc      \* no document has this id

Name == Seq(Parts)

\* Mutant: the id leaves out the owner.
KeyOfRepo(b) == b.repo \o b.branch

\* `${owner}-${repo}-${branch}`: the _id of the document and the channel id.
Key(b) == b.owner \o b.repo \o b.branch

Owners == {b.owner : b \in Branches}
Keys == {Key(b) : b \in Branches}

\* branch is history: the document does not say for which branch it was booked.
Booking == [pr: PullRequests, user: Users, branch: Branches]

VARIABLES docs,       \* the queue documents, by _id
          updates,    \* the updates under way
          view,       \* by channel: what a client that watches it shows
          displaced   \* history, by channel: what it shows is not the newest

Document == [owner: Owners, queue: Seq(Booking)]

ASSUME FeedAssumption ==
    /\ Branches \subseteq [owner: Name, repo: Name, branch: Name]
    /\ \A b \in Branches : b.owner # <<>>
    /\ NoDoc \notin Document

vars == <<docs, updates, view, displaced>>

Items(k) == IF docs[k] = NoDoc THEN <<>> ELSE docs[k].queue

Holds(q, pr) == \E i \in DOMAIN q : q[i].pr = pr

\* $pull, of the one booking that can match (BookingQueue!UniqueBookings).
Pull(q, pr, user) ==
    LET hits == {i \in DOMAIN q : q[i].pr = pr /\ q[i].user = user} IN
    IF hits = {} THEN q ELSE RemoveAt(q, CHOOSE i \in hits : TRUE)

Idle == [step |-> "idle"]
Reading(k) == [step |-> "read", key |-> k]
Sent(k, q) == [step |-> "sent", key |-> k, items |-> q, newest |-> TRUE]

\* What is sent about the ids in ks is not the newest any more.
Outdated(ks) ==
    [u \in Updates |-> IF updates[u].step = "sent" /\ updates[u].key \in ks
                       THEN [updates[u] EXCEPT !.newest = FALSE]
                       ELSE updates[u]]

-----------------------------------------------------------------------------
Update == {Idle}
          \cup [step: {"read"}, key: Keys]
          \cup [step: {"sent"}, key: Keys, items: Seq(Booking), newest: BOOLEAN]

TypeOK == /\ docs \in [Keys -> {NoDoc} \cup Document]
          /\ updates \in [Updates -> Update]
          /\ view \in [Keys -> Seq(Booking)]
          /\ displaced \in [Keys -> BOOLEAN]

Init == /\ docs = [k \in Keys |-> NoDoc]
        /\ updates = [u \in Updates |-> Idle]
        /\ view = [k \in Keys |-> <<>>]
        /\ displaced = [k \in Keys |-> FALSE]

-----------------------------------------------------------------------------
(* manager-queue.js.                                                       *)

\* Mutant: while an update of the queue is under way no other one is started.
PublishOnce(u, k) ==
    /\ updates[u] = Idle
    /\ updates' =
         IF \E w \in Updates : updates[w] # Idle /\ updates[w].key = k
         THEN updates ELSE [updates EXCEPT ![u] = Reading(k)]

\* item.add and item.remove: pushQueueUpdate starts to read.
Publish(u, k) == /\ updates[u] = Idle
                 /\ updates' = [updates EXCEPT ![u] = Reading(k)]

\* Mutant: addItem puts the booking in front ($push with $position: 0).
AddItemInFront(b, pr, user, u) ==
    LET k == Key(b) IN
    /\ ~Holds(Items(k), pr)
    /\ docs' = [docs EXCEPT ![k] =
                  [owner |-> b.owner,
                   queue |-> <<[pr |-> pr, user |-> user, branch |-> b]>>
                             \o Items(k)]]
    /\ Publish(u, k)
    /\ UNCHANGED <<view, displaced>>

\* addItem of a pull request that is not queued; another one is refused and
\* publishes nothing.  (QueueManager has the two halves of the upsert.)
AddItem(b, pr, user, u) ==
    LET k == Key(b) IN
    /\ ~Holds(Items(k), pr)
    /\ docs' = [docs EXCEPT ![k] =
                  [owner |-> b.owner,
                   queue |-> Append(Items(k),
                               [pr |-> pr, user |-> user, branch |-> b])]]
    /\ Publish(u, k)
    /\ UNCHANGED <<view, displaced>>

\* removeItem publishes whether or not something was pulled.
RemoveItem(b, pr, user, u) ==
    LET k == Key(b) IN
    /\ docs' = [docs EXCEPT ![k] =
                  IF @ = NoDoc THEN NoDoc
                  ELSE [owner |-> @.owner, queue |-> Pull(@.queue, pr, user)]]
    /\ Publish(u, k)
    /\ UNCHANGED <<view, displaced>>

\* Mutants: the documents are blanked and stay, or those of every owner go.
BlankQueue(owner) ==
    /\ docs' = [k \in Keys |->
                  IF docs[k] = NoDoc \/ docs[k].owner # owner THEN docs[k]
                  ELSE [owner |-> <<>>, queue |-> <<>>]]
    /\ UNCHANGED <<updates, view, displaced>>
DeleteEveryQueue(owner) ==
    /\ docs' = [k \in Keys |-> NoDoc]
    /\ updates' = Outdated(Keys)
    /\ displaced' = [k \in Keys |-> TRUE]
    /\ UNCHANGED view

\* deleteQueue goes by the owner field, and publishes nothing.
DeleteQueue(owner) ==
    LET ks == {k \in Keys : docs[k] # NoDoc /\ docs[k].owner = owner} IN
    /\ ks # {}
    /\ docs' = [k \in Keys |-> IF k \in ks THEN NoDoc ELSE docs[k]]
    /\ updates' = Outdated(ks)
    /\ displaced' = [k \in Keys |-> k \in ks \/ displaced[k]]
    /\ UNCHANGED view

\* GET /:owner/:repository/:branch: the client loads the queue itself.
GetItems(b, u) ==
    /\ Publish(u, Key(b))
    /\ UNCHANGED <<docs, view, displaced>>

-----------------------------------------------------------------------------
(* Updates.                                                                *)

\* getItems answers, and the items are on their way to the client.
Read(u) ==
    LET k == updates[u].key IN
    /\ updates[u].step = "read"
    /\ updates' = [Outdated({k}) EXCEPT ![u] = Sent(k, Items(k))]
    /\ UNCHANGED <<docs, view, displaced>>

Deliver(u) ==
    LET k == updates[u].key IN
    /\ updates[u].step = "sent"
    /\ view' = [view EXCEPT ![k] = updates[u].items]
    /\ displaced' = [displaced EXCEPT ![k] = ~updates[u].newest]
    /\ updates' = [updates EXCEPT ![u] = Idle]
    /\ UNCHANGED docs

\* The rejection of getItems, or of the request to Pusher, is nobody's: the
\* update is gone.  After a failed read nothing that was sent is the newest.
Fail(u) ==
    LET k == updates[u].key IN
    /\ updates[u].step # "idle"
    /\ \/ /\ updates[u].step = "read"
          /\ updates' = [Outdated({k}) EXCEPT ![u] = Idle]
          /\ displaced' = [displaced EXCEPT ![k] = TRUE]
       \/ /\ updates[u].step = "sent"
          /\ updates' = [updates EXCEPT ![u] = Idle]
          /\ displaced' = [displaced EXCEPT ![k] = @ \/ updates[u].newest]
    /\ UNCHANGED <<docs, view>>

\* The process dies with its updates.
Restart ==
    /\ updates' = [u \in Updates |-> Idle]
    /\ displaced' = [k \in Keys |->
                       displaced[k] \/ \E u \in Updates :
                         updates[u].step # "idle" /\ updates[u].key = k]
    /\ UNCHANGED <<docs, view>>

-----------------------------------------------------------------------------
Next ==
    \/ \E u \in Updates :
         \/ \E b \in Branches :
              \/ \E pr \in PullRequests, user \in Users :
                   AddItem(b, pr, user, u) \/ RemoveItem(b, pr, user, u)
              \/ GetItems(b, u)
         \/ Read(u) \/ Deliver(u) \/ Fail(u)
    \/ \E owner \in Owners : DeleteQueue(owner)
    \/ Restart

Spec == Init /\ [][Next]_vars

-----------------------------------------------------------------------------
(* Properties.                                                             *)

\* The update of every change is the last one to read, so a client whose
\* updates all came in the order in which they were read, none lost, and the
\* owner not gone, shows the queue as it is.
FeedCatchesUp ==
    \A k \in Keys :
      /\ \A u \in Updates : updates[u] # Idle => updates[u].key # k
      /\ ~displaced[k]
      => view[k] = Items(k)

\* Owner and repository names without a dash.
Plain(b) == Len(b.owner) = 1 /\ Len(b.repo) = 1

\* Whatever dashes branch names have, and whatever other branches share its
\* document, no booking of a branch with such names turns up in the queue of
\* another one with such names.
BookingsStayApart ==
    \A b \in Branches : Plain(b) =>
      \A i \in DOMAIN Items(Key(b)) :
        Plain(Items(Key(b))[i].branch) => Items(Key(b))[i].branch = b

\* ... and no step changes the queues of such branches of two owners, not even
\* when deleteQueue is for an owner whose documents collide with theirs.
OwnersStayApart ==
    [][\A b, c \in Branches :
         /\ Plain(b) /\ Plain(c)
         /\ Items(Key(b))' # Items(Key(b))
         /\ Items(Key(c))' # Items(Key(c))
         => b.owner = c.owner]_vars
===============================================================================
